---- MODULE Spec2Model ----
(***************************************************************************)
(* State-machine model of the TM R&D assessment web client:                *)
(*   - AuthService (token store, expiry check, logout)                     *)
(*   - AuthGuard.canActivate and the router's protected routes             *)
(*   - LoginComponent.login / testNavigation                               *)
(*   - DetailComponent pagination over the alert list                      *)
(*   - DetailComponent display helpers (page window, alert fields,         *)
(*     duration and timestamp formatting)                                  *)
(*   - ThemeService (light/dark theme and its stored preference)           *)
(*   - LoginComponent.validateForm                                          *)
(*   - HomeComponent: loading the product list, and the product modals      *)
(* Time is the value of Date.now() in milliseconds.                        *)
(***************************************************************************)
EXTENDS Integers, Naturals, Sequences, FiniteSets, TLC

VARIABLES
  localStorage,   \* browser key-value store: key -> string or NULL
  now,            \* Date.now(), milliseconds
  authCheck,      \* the isAuthenticated() call of the last handler: [called, gap, result]
  sessionLog,     \* last write of the session record: [op, by, token, expiry, at]
  guardResult,    \* last return value of AuthGuard.canActivate()
  url,            \* route the router currently shows
  last,           \* name of the handler that ran last
  username, password, loginMessage, loginLoading,   \* LoginComponent fields
  loginPending,   \* authentication requests in flight, issued by the shown LoginComponent
  orphanPending,  \* authentication requests in flight whose LoginComponent is gone
  navTimers,      \* pending setTimeout(() => router.navigate(['/home']))
  productId, detailLoading, detailError,            \* DetailComponent fields
  startDate, endDate, currentPage, totalItems, totalPages, alerts,
  detailPc,       \* DetailComponent: "none", "constructed" or "ready"
  alertRequests,  \* alert-list requests in flight, in the order issued
  apiShape,       \* shape of the answers of the alert-list API
  viewPc,         \* display helper of DetailComponent that returned last, or "idle"
  pageNumbers,    \* return value of getPageNumbers()
  alert, fieldType, fieldValue,   \* arguments and return value of getAlertField()
  duration, durationText,         \* argument and return value of formatDuration()
  datetime, dateTimeText,         \* argument and return value of formatDateTime()
  themeSubject,   \* ThemeService instance -> value of its themeSubject, or NoService
  documentTheme,  \* data-theme attribute of the <html> element
  themeCall,      \* last ThemeService call: [op, service, stored], the toggles of
                  \* that service in a row and the theme before them, and the
                  \* service whose write the store holds
  isFormValid,    \* LoginComponent.isFormValid
  products, homeLoading, homeError,                 \* HomeComponent fields
  editingProduct, productToDelete, showEditModal, showDeleteModal,
  homePc,         \* HomeComponent: "none", or where its latest loadProducts()
                  \* call is: "loading", "loaded", "failed", or "threw" when
                  \* the call ended with an uncaught exception
  productRequests,        \* product-list requests in flight of the shown HomeComponent
  orphanProductRequests   \* product-list requests in flight whose HomeComponent is gone

authVars  == <<localStorage, now, authCheck, sessionLog, guardResult, url, last>>
loginVars == <<username, password, loginMessage, loginLoading, loginPending,
              orphanPending, navTimers>>
detailVars == <<productId, detailLoading, detailError, startDate, endDate,
                currentPage, totalItems, totalPages, alerts, detailPc, alertRequests>>
viewVars  == <<viewPc, pageNumbers, alert, fieldType, fieldValue,
              duration, durationText, datetime, dateTimeText>>
themeVars == <<themeSubject, documentTheme, themeCall>>
formVars  == <<isFormValid>>
homeVars  == <<products, homeLoading, homeError, editingProduct, productToDelete,
              showEditModal, showDeleteModal, homePc, productRequests,
              orphanProductRequests>>
vars      == <<authVars, loginVars, detailVars, apiShape, viewVars, themeVars,
              formVars, homeVars>>

----------------------------------------------------------------------------
(* Bounds *)

MaxNowHours     == 26   \* the clock stops advancing after this many hours
MaxHourTicks    == 2    \* one-hour steps of the clock observed within a day
MaxLoginPending == 1    \* authentication requests in flight at once
MaxNavTimers    == 1    \* navigation timers pending at once
MaxInFlight     == 2    \* alert-list requests in flight at once
MaxProductRequests == 2 \* product-list requests in flight at once
MaxProducts     == 3    \* products the home page lists at once
FullTotal       == 23   \* alerts the server holds for the default date range
NarrowTotal     == 3    \* alerts the server holds for the last three days

----------------------------------------------------------------------------
(* Time and timestamps *)

HourMs == 60 * 60 * 1000
DayMs  == 24 * 60 * 60 * 1000

NaN  == -1            \* Date.getTime() of an invalid date
NULL == "<null>"      \* the JavaScript null returned for an absent key

\* The whole-hour instants a timestamp text of the model can denote.
Instants == { h * HourMs : h \in 0 .. (MaxNowHours + 24 + 2) }

Pad2(n) == IF n < 10 THEN "0" \o ToString(n) ELSE ToString(n)

\* Date.prototype.toISOString for a whole-hour instant of January 1970.
toISOString(t) ==
  LET h == t \div HourMs
  IN  "1970-01-" \o Pad2(1 + (h \div 24)) \o "T" \o Pad2(h % 24) \o ":00:00.000Z"

\* new Date(text).getTime(): the instant of an ISO timestamp, NaN otherwise.
IsoTable == [t \in Instants |-> toISOString(t)]

DateParse(s) ==
  IF \E t \in Instants : IsoTable[t] = s
  THEN CHOOSE t \in Instants : IsoTable[t] = s
  ELSE NaN

isNaN(x) == x = NaN

\* JavaScript truthiness of a string-or-null value.
Truthy(v) == v # NULL /\ v # ""

startsWith(s, p) == Len(s) >= Len(p) /\ SubSeq(s, 1, Len(p)) = p

----------------------------------------------------------------------------
(* localStorage *)

THEME_KEY == "app-theme"

StorageKeys == {"authToken", "tokenExpiry", "token", THEME_KEY}

getItem(ls, k)    == ls[k]
setItem(ls, k, v) == [ls EXCEPT ![k] = v]
removeItem(ls, k) == [ls EXCEPT ![k] = NULL]

EmptyStorage == [k \in StorageKeys |-> NULL]

----------------------------------------------------------------------------
(* AuthService *)

setAuthToken(ls, token, expiry) ==
  setItem(setItem(ls, "authToken", token), "tokenExpiry", expiry)

getAuthToken(ls) == getItem(ls, "authToken")

\* Mutants of isAuthenticated.
isAuthenticated_noHour(ls, t1, t2) ==
  LET token  == getAuthToken(ls)
      expiry == getItem(ls, "tokenExpiry")
  IN  IF ~Truthy(token) \/ ~Truthy(expiry) THEN FALSE
      ELSE IF expiry = "1hr" THEN t1 > t2
      ELSE IF isNaN(DateParse(expiry)) THEN FALSE
      ELSE DateParse(expiry) > t2

isAuthenticated_notStrict(ls, t1, t2) ==
  LET token  == getAuthToken(ls)
      expiry == getItem(ls, "tokenExpiry")
  IN  IF ~Truthy(token) \/ ~Truthy(expiry) THEN FALSE
      ELSE IF expiry = "1hr" THEN t1 + HourMs > t2
      ELSE IF isNaN(DateParse(expiry)) THEN FALSE
      ELSE DateParse(expiry) >= t2

isAuthenticated_noTokenCheck(ls, t1, t2) ==
  LET expiry == getItem(ls, "tokenExpiry")
  IN  IF ~Truthy(expiry) THEN FALSE
      ELSE IF expiry = "1hr" THEN t1 + HourMs > t2
      ELSE IF isNaN(DateParse(expiry)) THEN FALSE
      ELSE DateParse(expiry) > t2

\* isAuthenticated(): t1 is the Date.now() read of the "1hr" branch, t2 the
\* later `new Date()` read the expiry is compared with.
isAuthenticated(ls, t1, t2) ==
  LET token  == getAuthToken(ls)
      expiry == getItem(ls, "tokenExpiry")
  IN  IF ~Truthy(token) \/ ~Truthy(expiry) THEN FALSE
      ELSE IF expiry = "1hr" THEN t1 + HourMs > t2
      ELSE IF isNaN(DateParse(expiry)) THEN FALSE
      ELSE DateParse(expiry) > t2

\* Mutant of logout: the expiry is left behind.
logout_keepExpiry(ls) == removeItem(ls, "authToken")

logout(ls) == removeItem(removeItem(ls, "authToken"), "tokenExpiry")

\* Milliseconds that can pass between the two clock reads of one call.
ReadGaps == {0, 1}


----------------------------------------------------------------------------
(* AuthGuard *)

\* Mutant of canActivate: the guard lets everybody in.
canActivate_open(ls, t1, t2) == TRUE

\* AuthGuard.canActivate(): the value it returns.
canActivate(ls, t1, t2) ==
  LET token  == getAuthToken(ls)
      isAuth == isAuthenticated(ls, t1, t2)
  IN  IF Truthy(token)
         /\ (startsWith(token, "test-token-") \/ startsWith(token, "mock-jwt-token-"))
      THEN TRUE
      ELSE isAuth

----------------------------------------------------------------------------
(* Initial values of the components *)

\* No isAuthenticated() call returned in the last handler.
NoCheck == [called |-> FALSE, gap |-> 0, result |-> FALSE]

Check(ls, g) == [called |-> TRUE, gap |-> g, result |-> isAuthenticated(ls, now, now + g)]

NoSession == [op |-> "none", by |-> "init", token |-> NULL, expiry |-> NULL, at |-> 0]

\* A handler `by` calls AuthService.setAuthToken(token, expiry).
StoreSession(by, token, expiry) ==
  /\ localStorage' = setAuthToken(localStorage, token, expiry)
  /\ sessionLog' = [op |-> "set", by |-> by, token |-> token, expiry |-> expiry, at |-> now]

\* A handler `by` calls AuthService.logout().
ClearSession(by) ==
  /\ localStorage' = logout(localStorage)
  /\ sessionLog' = [op |-> "logout", by |-> by, token |-> NULL, expiry |-> NULL, at |-> now]

InitLogin ==
  /\ username = "" /\ password = "" /\ loginMessage = "" /\ loginLoading = FALSE
  /\ loginPending = 0 /\ orphanPending = 0 /\ navTimers = 0

\* No DetailComponent exists.
InitNoDetail ==
  /\ productId = "" /\ detailLoading = FALSE /\ detailError = ""
  /\ startDate = "" /\ endDate = "" /\ currentPage = 1
  /\ totalItems = 0 /\ totalPages = 0 /\ alerts = <<>>
  /\ detailPc = "none" /\ alertRequests = <<>>

\* A JavaScript value: its typeof tag t, its text s (strings, NaN, Infinity,
\* object kinds) and its number n; a number with kilo set is n * 1000, the
\* size of a millisecond timestamp.
JsValue(t, s, n, kilo) == [t |-> t, s |-> s, n |-> n, kilo |-> kilo]
JsUndefined == JsValue("undefined", "", 0, FALSE)
JsNull      == JsValue("null", "", 0, FALSE)
JsString(s) == JsValue("string", s, 0, FALSE)
JsNumber(n) == JsValue("number", "", n, FALSE)
JsBoolean(b) == JsValue("boolean", "", IF b THEN 1 ELSE 0, FALSE)

\* No display helper has been called.
InitNoView ==
  /\ viewPc = "idle" /\ pageNumbers = <<>>
  /\ alert = <<>> /\ fieldType = "" /\ fieldValue = JsNull
  /\ duration = JsNull /\ durationText = ""
  /\ datetime = JsNull /\ dateTimeText = ""

\* No ThemeService exists.
Services  == {1, 2}
NoService == "none"
NoThemeCall == [op |-> "none", service |-> 0, stored |-> FALSE,
                toggles |-> 0, origin |-> NULL, writer |-> 0]

InitNoTheme ==
  /\ themeSubject = [i \in Services |-> NoService]
  /\ documentTheme = NULL
  /\ themeCall = NoThemeCall

\* The form of the LoginComponent has not been validated.
InitNoForm == isFormValid = FALSE

\* A product of the home page list, and the empty form of its modals.
Product(id, productName, productUrl) ==
  [id |-> id, productName |-> productName, url |-> productUrl]

EmptyProduct == Product("", "", "")

\* productToDelete = null
NoProduct == Product(NULL, NULL, NULL)

\* No HomeComponent exists.
InitNoHome ==
  /\ products = <<>> /\ homeLoading = FALSE /\ homeError = ""
  /\ editingProduct = EmptyProduct /\ productToDelete = NoProduct
  /\ showEditModal = FALSE /\ showDeleteModal = FALSE
  /\ homePc = "none" /\ productRequests = 0 /\ orphanProductRequests = 0

InitAuth ==
  /\ now = 0
  /\ authCheck = NoCheck
  /\ sessionLog = NoSession
  /\ guardResult = FALSE
  /\ url = "/login"
  /\ last = "init"

----------------------------------------------------------------------------
(* SpecStore: AuthService over every content of the store *)

RealToken == "eyJhbGciOiJIUzI1NiIsInR5cCI6IkpXVCJ9.test"

StoreTokens   == {NULL, "", RealToken, "test-token-123"}
StoreExpiries == {NULL, "", "1hr", "not-a-date",
                  toISOString(0), toISOString(HourMs), toISOString(2 * HourMs)}
StoreTimes    == {0, HourMs, 2 * HourMs}

InitStore ==
  /\ InitAuth /\ InitLogin /\ InitNoForm /\ InitNoHome /\ InitNoDetail /\ apiShape = "dataTotal"
  /\ InitNoView /\ InitNoTheme
  /\ localStorage \in { ls \in [StorageKeys -> StoreTokens \cup StoreExpiries] :
                          /\ ls["authToken"] \in StoreTokens
                          /\ ls["token"] \in {NULL, "test-token-123"}
                          /\ ls["tokenExpiry"] \in StoreExpiries
                          /\ ls[THEME_KEY] = NULL }

StoreIsAuthenticated ==
  \E g \in ReadGaps :
    /\ authCheck' = Check(localStorage, g)
    /\ last' = "isAuthenticated"
    /\ UNCHANGED <<localStorage, now, sessionLog, guardResult, url, loginVars>>
  /\ UNCHANGED <<detailVars, apiShape, viewVars, themeVars, formVars, homeVars>>

StoreLogout ==
  /\ ClearSession("logout")
  /\ last' = "logout"
  /\ authCheck' = NoCheck
  /\ UNCHANGED <<now, guardResult, url, loginVars>>
  /\ UNCHANGED <<detailVars, apiShape, viewVars, themeVars, formVars, homeVars>>

StoreSetAuthToken ==
  \E t \in StoreTokens \ {NULL}, e \in StoreExpiries \ {NULL} :
    /\ StoreSession("setAuthToken", t, e)
    /\ last' = "setAuthToken"
    /\ authCheck' = NoCheck
    /\ UNCHANGED <<now, guardResult, url, loginVars>>
  /\ UNCHANGED <<detailVars, apiShape, viewVars, themeVars, formVars, homeVars>>

StoreTick ==
  /\ now + HourMs \in StoreTimes
  /\ now' = now + HourMs
  /\ last' = "tick"
  /\ authCheck' = NoCheck
  /\ UNCHANGED <<localStorage, sessionLog, guardResult, url, loginVars>>
  /\ UNCHANGED <<detailVars, apiShape, viewVars, themeVars, formVars, homeVars>>

NextStore == StoreIsAuthenticated \/ StoreLogout \/ StoreSetAuthToken \/ StoreTick

SpecStore == InitStore /\ [][NextStore]_vars

----------------------------------------------------------------------------
(* LoginComponent fields and the router *)

\* The fields of a LoginComponent exist while the login page is shown; a
\* component that is gone has no fields, its requests in flight are orphaned.
LoginFields(newUrl, u, p, msg, loading, pending, orphan) ==
  IF newUrl = "/login"
  THEN /\ username' = u /\ password' = p /\ loginMessage' = msg
       /\ loginLoading' = loading
       /\ loginPending' = pending /\ orphanPending' = orphan
  ELSE /\ username' = "" /\ password' = "" /\ loginMessage' = ""
       /\ loginLoading' = FALSE
       /\ loginPending' = 0 /\ orphanPending' = orphan + pending

KeepLoginFields(newUrl) ==
  LoginFields(newUrl, username, password, loginMessage, loginLoading,
              loginPending, orphanPending)

ProtectedRoutes == {"/home", "/detail"}

\* HomeComponent.ngOnInit(): the page shown once the component is created.
homeNgOnInit(isAuth) == IF ~isAuth THEN "/login" ELSE "/home"

\* router.navigate([route]) for a route with canActivate: [AuthGuard].  The
\* guard decides; HomeComponent.ngOnInit sends an unauthenticated user back.
Activate(route, g, by) ==
  LET isAuth == isAuthenticated(localStorage, now, now + g)
      res    == canActivate(localStorage, now, now + g)
  IN  /\ authCheck' = [called |-> TRUE, gap |-> g, result |-> isAuth]
      /\ guardResult' = res
      /\ url' = IF ~res THEN "/login"
                ELSE IF route = "/home" THEN homeNgOnInit(isAuth)
                ELSE route
      /\ KeepLoginFields(url')
      /\ last' = by

Navigate ==
  \E route \in ProtectedRoutes, g \in ReadGaps :
    /\ Activate(route, g, "canActivate")
    /\ UNCHANGED <<localStorage, now, sessionLog, navTimers>>
  /\ UNCHANGED <<detailVars, apiShape, viewVars, themeVars, formVars, homeVars>>

\* A pending setTimeout callback runs: router.navigate(['/home']).
NavTimerFires ==
  /\ navTimers > 0
  /\ navTimers' = navTimers - 1
  /\ \E g \in ReadGaps : Activate("/home", g, "navTimer")
  /\ UNCHANGED <<localStorage, now, sessionLog>>
  /\ UNCHANGED <<detailVars, apiShape, viewVars, themeVars, formVars, homeVars>>

\* The login page is opened from another page: a fresh LoginComponent.
GotoLogin ==
  /\ url # "/login"
  /\ url' = "/login"
  /\ last' = "gotoLogin"
  /\ authCheck' = NoCheck /\ guardResult' = FALSE
  /\ UNCHANGED <<localStorage, now, sessionLog, loginVars>>
  /\ UNCHANGED <<detailVars, apiShape, viewVars, themeVars, formVars, homeVars>>

----------------------------------------------------------------------------
(* LoginComponent *)

RECURSIVE trimStart(_)
trimStart(s) ==
  IF Len(s) > 0 /\ SubSeq(s, 1, 1) = " " THEN trimStart(SubSeq(s, 2, Len(s))) ELSE s

RECURSIVE trimEnd(_)
trimEnd(s) ==
  IF Len(s) > 0 /\ SubSeq(s, Len(s), Len(s)) = " "
  THEN trimEnd(SubSeq(s, 1, Len(s) - 1)) ELSE s

trim(s) == trimEnd(trimStart(s))

correctUsername == "dummyUser"
correctPassword == "Test@123"

Usernames == {"  ", correctUsername, "invalid"}
Passwords == {"", correctPassword}

MsgEmpty   == "Please enter both username and password."
MsgInvalid == "Invalid username or password."

\* Answers of the authentication API.
LoginResponses ==
  [success : BOOLEAN, token : {"", RealToken},
   tokenExpiry : {"1hr", "not-a-date", toISOString(2 * HourMs)}]

\* Error statuses of a failed authentication request.
ErrorStatuses == {0, 401, 500}

\* login(): the form holds u and p when the button is pressed.
Login ==
  \E u \in Usernames, p \in Passwords :
    /\ url = "/login"
    /\ username' = u /\ password' = p
    /\ last' = "login"
    /\ IF ~Truthy(trim(u)) \/ ~Truthy(trim(p))
       THEN /\ loginMessage' = MsgEmpty
            /\ UNCHANGED <<loginLoading, loginPending>>
       ELSE IF u # correctUsername \/ p # correctPassword
       THEN /\ loginLoading' = FALSE
            /\ loginMessage' = MsgInvalid
            /\ UNCHANGED loginPending
       ELSE /\ loginPending + orphanPending < MaxLoginPending
            /\ loginLoading' = TRUE
            /\ loginMessage' = ""
            /\ loginPending' = loginPending + 1
    /\ authCheck' = NoCheck /\ guardResult' = FALSE
    /\ UNCHANGED <<localStorage, now, sessionLog, url, orphanPending, navTimers>>
  /\ UNCHANGED <<detailVars, apiShape, viewVars, themeVars, formVars, homeVars>>

\* The request whose answer arrives: of the shown component, or an orphan.
TakeRequest(shown) ==
  IF shown
  THEN /\ loginPending > 0
       /\ loginPending' = loginPending - 1
       /\ loginLoading' = FALSE
       /\ UNCHANGED orphanPending
  ELSE /\ orphanPending > 0
       /\ orphanPending' = orphanPending - 1
       /\ UNCHANGED <<loginPending, loginLoading>>

\* Mutant of loginNext: the session is stored, the navigation is not scheduled.
loginNext_noNavigation(response, g, shown) ==
  /\ TakeRequest(shown)
  /\ last' = "loginNext"
  /\ IF response.success = TRUE /\ Truthy(response.token)
     THEN /\ navTimers < MaxNavTimers
          /\ StoreSession("loginNext", response.token, response.tokenExpiry)
          /\ authCheck' = Check(localStorage', g)
          /\ UNCHANGED <<navTimers, loginMessage>>
     ELSE /\ loginMessage' = IF shown THEN MsgInvalid ELSE loginMessage
          /\ authCheck' = NoCheck
          /\ UNCHANGED <<localStorage, sessionLog, navTimers>>
  /\ guardResult' = FALSE
  /\ UNCHANGED <<now, url, username, password>>

\* The `next` handler of login() for the answer `response`; `shown` tells
\* whether the LoginComponent that sent the request is still on the page.
loginNext(response, g, shown) ==
  /\ TakeRequest(shown)
  /\ last' = "loginNext"
  /\ IF response.success = TRUE /\ Truthy(response.token)
     THEN /\ navTimers < MaxNavTimers
          /\ StoreSession("loginNext", response.token, response.tokenExpiry)
          /\ authCheck' = Check(localStorage', g)
          /\ navTimers' = navTimers + 1
          /\ UNCHANGED loginMessage
     ELSE /\ loginMessage' = IF shown THEN MsgInvalid ELSE loginMessage
          /\ authCheck' = NoCheck
          /\ UNCHANGED <<localStorage, sessionLog, navTimers>>
  /\ guardResult' = FALSE
  /\ UNCHANGED <<now, url, username, password>>

LoginNext ==
  \E response \in LoginResponses, g \in ReadGaps, shown \in BOOLEAN :
    /\ loginNext(response, g, shown)
  /\ UNCHANGED <<detailVars, apiShape, viewVars, themeVars, formVars, homeVars>>

\* simulateLogin(): a mock session is stored and a navigation is scheduled.
simulateLogin(g) ==
  LET mockToken  == "mock-jwt-token-" \o ToString(now)
      mockExpiry == toISOString(now + DayMs)
  IN  /\ StoreSession("loginError", mockToken, mockExpiry)
      /\ authCheck' = Check(localStorage', g)
      /\ navTimers' = navTimers + 1

\* The `error` handler of login().
LoginError ==
  \E status \in ErrorStatuses, g \in ReadGaps, shown \in BOOLEAN :
    /\ TakeRequest(shown)
    /\ navTimers < MaxNavTimers
    /\ last' = "loginError"
    /\ simulateLogin(g)
    /\ guardResult' = FALSE
    /\ UNCHANGED <<now, url, username, password, loginMessage>>
  /\ UNCHANGED <<detailVars, apiShape, viewVars, themeVars, formVars, homeVars>>

TestNavigation ==
  \E g \in ReadGaps :
    LET mockToken  == "test-token-" \o ToString(now)
        mockExpiry == toISOString(now + DayMs)
    IN  /\ url = "/login"
        /\ navTimers < MaxNavTimers
        /\ StoreSession("testNavigation", mockToken, mockExpiry)
        /\ authCheck' = Check(localStorage', g)
        /\ navTimers' = navTimers + 1
        /\ last' = "testNavigation"
        /\ guardResult' = FALSE
        /\ UNCHANGED <<now, url, username, password, loginMessage,
                       loginLoading, loginPending, orphanPending>>
  /\ UNCHANGED <<detailVars, apiShape, viewVars, themeVars, formVars, homeVars>>

----------------------------------------------------------------------------
(* HomeComponent.logout and the clock *)

Logout ==
  /\ url = "/home"
  /\ ClearSession("logout")
  /\ url' = "/login"
  /\ last' = "logout"
  /\ authCheck' = NoCheck /\ guardResult' = FALSE
  /\ UNCHANGED <<now, loginVars>>
  /\ UNCHANGED <<detailVars, apiShape, viewVars, themeVars, formVars, homeVars>>

Tick ==
  \E d \in {HourMs, DayMs} :
    /\ now + d <= MaxNowHours * HourMs
    /\ d = HourMs => (now % DayMs) + d <= MaxHourTicks * HourMs
    /\ now' = now + d
    /\ last' = "tick"
    /\ authCheck' = NoCheck /\ guardResult' = FALSE
    /\ UNCHANGED <<localStorage, sessionLog, url, loginVars>>
  /\ UNCHANGED <<detailVars, apiShape, viewVars, themeVars, formVars, homeVars>>

Init ==
  /\ InitAuth /\ InitLogin /\ InitNoForm /\ InitNoHome /\ InitNoDetail /\ apiShape = "dataTotal"
  /\ InitNoView /\ InitNoTheme
  /\ localStorage = EmptyStorage

Next ==
  \/ Login \/ LoginNext \/ LoginError \/ TestNavigation
  \/ Navigate \/ NavTimerFires \/ GotoLogin \/ Logout \/ Tick

Spec == Init /\ [][Next]_vars

\* The event loop runs every pending timer callback; the clock stands still.
NextLive ==
  \/ Login \/ LoginNext \/ LoginError \/ TestNavigation
  \/ Navigate \/ NavTimerFires \/ GotoLogin \/ Logout

SpecLive == Init /\ [][NextLive]_vars /\ WF_vars(NavTimerFires)

----------------------------------------------------------------------------
(* DetailComponent: the alert list and its pagination *)

pageSize == 5

\* Math.ceil(a / b) for integers a and b > 0.
MathCeilDiv_floor(a, b) == a \div b

MathCeilDiv(a, b) == -((-a) \div b)

MathMin(a, b) == IF a < b THEN a ELSE b

\* The date range ngOnInit sets, and the ranges the user picks afterwards.
DefaultStart == "2022-01-25"
DefaultEnd   == "2022-02-16"

DateRanges ==
  { [startDate |-> DefaultStart,  endDate |-> DefaultEnd],
    [startDate |-> "2022-02-14", endDate |-> DefaultEnd],
    [startDate |-> "2022-02-16", endDate |-> "2022-01-25"] }

\* The alert list server: how many alerts it holds for a date range.
ServerTotal(sd, ed) ==
  IF sd = DefaultStart /\ ed = DefaultEnd THEN FullTotal
  ELSE IF sd = "2022-02-14" /\ ed = DefaultEnd THEN NarrowTotal
  ELSE 0

\* Number.prototype.toString() of the query parameters, and the number the
\* server reads back from a parameter.
ParamTexts == [n \in 0 .. 99 * pageSize |-> ToString(n)]

ParamNumbers == [s \in { ParamTexts[n] : n \in DOMAIN ParamTexts } |->
                   CHOOSE n \in DOMAIN ParamTexts : ParamTexts[n] = s]

ParamNumber(s) == ParamNumbers[s]

\* The template literal `Bearer ${token}` for the tokens a session can hold.
RenewedToken == "eyJhbGciOiJIUzI1NiIsInR5cCI6IkpXVCJ9.next"

BearerTexts == [token \in StoreTokens \cup {RenewedToken} |-> "Bearer " \o token]

Bearer(token) == BearerTexts[token]

\* The alerts of one page of the server's list.
ServerPage(req) ==
  LET total == ServerTotal(req.startDate, req.endDate)
      first == ParamNumber(req.indexNumber) + 1
      lastI == MathMin(ParamNumber(req.indexNumber) + ParamNumber(req.pageSize), total)
  IN  [i \in 1 .. (IF lastI >= first THEN lastI - first + 1 ELSE 0) |->
         [startDate |-> req.startDate, id |-> first + i - 1]]

\* Shapes of a successful answer: a bare array, {data, total}, {data}, {}.
ResponseShapes == {"array", "dataTotal", "data", "other"}

\* The answer to a request; total = 0 stands for a missing or zero total,
\* hasData for a present `data` array.
ServerResponse(req, shape) ==
  [isArray |-> shape = "array",
   hasData |-> shape \in {"dataTotal", "data"},
   data    |-> IF shape = "other" THEN <<>> ELSE ServerPage(req),
   total   |-> IF shape = "dataTotal"
               THEN ServerTotal(req.startDate, req.endDate) ELSE 0]

AlertErrorStatuses == {0, 401, 500}

MsgNoToken   == "Authentication token not found"
MsgNoProduct == "Invalid product ID"
MsgAuthFail  == "Authentication failed. Please login again."
MsgNoServer  == "Unable to connect to server. Please check your internet connection."
MsgLoadFail(status) == "Failed to load alerts. Error: " \o ToString(status)

otherVars == <<now, authCheck, sessionLog, guardResult, loginVars, apiShape,
               viewVars, themeVars, formVars, homeVars>>

\* Mutant of loadAlerts: the page number is taken for the offset of the page.
loadAlerts_pageAsOffset(page, sd, ed) ==
  LET token == getAuthToken(localStorage)
  IN  /\ alerts' = <<>>
      /\ IF ~Truthy(token)
         THEN /\ detailLoading' = FALSE
              /\ detailError' = MsgNoToken
              /\ UNCHANGED alertRequests
         ELSE /\ Len(alertRequests) < MaxInFlight
              /\ detailLoading' = TRUE
              /\ detailError' = ""
              /\ alertRequests' = Append(alertRequests,
                   [productId     |-> productId,
                    Authorization |-> Bearer(token),
                    indexNumber   |-> ParamTexts[page * pageSize],
                    pageSize      |-> ParamTexts[pageSize],
                    startDate     |-> sd,
                    endDate       |-> ed])

\* Mutant of loadAlerts: the request is sent without looking for a token.
loadAlerts_noTokenCheck(page, sd, ed) ==
  LET token == getAuthToken(localStorage)
  IN  /\ alerts' = <<>>
      /\ Len(alertRequests) < MaxInFlight
      /\ detailLoading' = TRUE
      /\ detailError' = ""
      /\ alertRequests' = Append(alertRequests,
           [productId     |-> productId,
            Authorization |-> Bearer(token),
            indexNumber   |-> ParamTexts[(page - 1) * pageSize],
            pageSize      |-> ParamTexts[pageSize],
            startDate     |-> sd,
            endDate       |-> ed])

\* loadAlerts() on page `page` with the dates sd, ed; the fields it leaves
\* alone are totalItems and totalPages.  A request in flight is its URL
\* parameter, its Authorization header and its query parameters.
loadAlerts(page, sd, ed) ==
  LET token == getAuthToken(localStorage)
  IN  /\ alerts' = <<>>
      /\ IF ~Truthy(token)
         THEN /\ detailLoading' = FALSE
              /\ detailError' = MsgNoToken
              /\ UNCHANGED alertRequests
         ELSE /\ Len(alertRequests) < MaxInFlight
              /\ detailLoading' = TRUE
              /\ detailError' = ""
              /\ alertRequests' = Append(alertRequests,
                   [productId     |-> productId,
                    Authorization |-> Bearer(token),
                    indexNumber   |-> ParamTexts[(page - 1) * pageSize],
                    pageSize      |-> ParamTexts[pageSize],
                    startDate     |-> sd,
                    endDate       |-> ed])

NgOnInit ==
  /\ url = "/detail" /\ detailPc = "constructed"
  /\ detailPc' = "ready"
  /\ UNCHANGED <<productId, currentPage, totalItems, totalPages>>
  /\ IF ~Truthy(productId)
     THEN /\ detailError' = MsgNoProduct
          /\ UNCHANGED <<detailLoading, startDate, endDate, alerts, alertRequests>>
     ELSE /\ startDate' = DefaultStart /\ endDate' = DefaultEnd
          /\ loadAlerts(currentPage, DefaultStart, DefaultEnd)
  /\ UNCHANGED <<localStorage, url, last, otherVars>>

\* The user picks a date range; the form binding sets the dates, then
\* onDateRangeChange() runs.
OnDateRangeChange ==
  \E r \in DateRanges :
    /\ url = "/detail" /\ detailPc = "ready"
    /\ startDate' = r.startDate /\ endDate' = r.endDate
    /\ currentPage' = 1
    /\ loadAlerts(1, r.startDate, r.endDate)
    /\ UNCHANGED <<productId, totalItems, totalPages, detailPc>>
    /\ UNCHANGED <<localStorage, url, last, otherVars>>

\* Mutants of goToPage: a click on the current page reloads it; a target
\* past the last page is accepted.
goToPage_reloadSame(page) ==
  IF page >= 1 /\ page <= totalPages
  THEN /\ currentPage' = page
       /\ loadAlerts(page, startDate, endDate)
       /\ UNCHANGED <<productId, startDate, endDate, totalItems, totalPages, detailPc>>
  ELSE UNCHANGED detailVars

goToPage_noUpperBound(page) ==
  IF page >= 1 /\ page # currentPage
  THEN /\ currentPage' = page
       /\ loadAlerts(page, startDate, endDate)
       /\ UNCHANGED <<productId, startDate, endDate, totalItems, totalPages, detailPc>>
  ELSE UNCHANGED detailVars

\* goToPage(page): what it does to the component.
goToPage(page) ==
  IF page >= 1 /\ page <= totalPages /\ page # currentPage
  THEN /\ currentPage' = page
       /\ loadAlerts(page, startDate, endDate)
       /\ UNCHANGED <<productId, startDate, endDate, totalItems, totalPages, detailPc>>
  ELSE UNCHANGED detailVars

\* Page numbers a caller can pass, in and out of range.
PageTargets == 0 .. (MathCeilDiv(FullTotal, pageSize) + 1)

PageArguments == PageTargets \cup {99}

GoToPage ==
  \E page \in PageArguments :
    /\ url = "/detail" /\ detailPc = "ready"
    /\ goToPage(page)
    /\ UNCHANGED <<localStorage, url, last, otherVars>>

\* goToPreviousPage(), goToNextPage(), goToFirstPage(), goToLastPage(): what
\* each does to the component.
goToPreviousPage ==
  IF currentPage > 1 THEN goToPage(currentPage - 1) ELSE UNCHANGED detailVars

\* Mutant of goToNextPage: on the last page it wraps around to the first.
goToNextPage_wrap ==
  IF currentPage < totalPages THEN goToPage(currentPage + 1) ELSE goToPage(1)

goToNextPage ==
  IF currentPage < totalPages THEN goToPage(currentPage + 1) ELSE UNCHANGED detailVars

goToFirstPage == goToPage(1)

goToLastPage == goToPage(totalPages)

GoToPreviousPage ==
  /\ url = "/detail" /\ detailPc = "ready"
  /\ goToPreviousPage
  /\ UNCHANGED <<localStorage, url, last, otherVars>>

GoToNextPage ==
  /\ url = "/detail" /\ detailPc = "ready"
  /\ goToNextPage
  /\ UNCHANGED <<localStorage, url, last, otherVars>>

GoToFirstPage ==
  /\ url = "/detail" /\ detailPc = "ready"
  /\ goToFirstPage
  /\ UNCHANGED <<localStorage, url, last, otherVars>>

GoToLastPage ==
  /\ url = "/detail" /\ detailPc = "ready"
  /\ goToLastPage
  /\ UNCHANGED <<localStorage, url, last, otherVars>>

\* The sequence without its i-th element.
RemoveAt(q, i) == SubSeq(q, 1, i - 1) \o SubSeq(q, i + 1, Len(q))

\* What the `next` handler of loadAlerts() takes from an answer: the alerts
\* to show and the number of items.
ResponseAlerts(response) ==
  IF response.isArray \/ response.hasData THEN response.data ELSE <<>>

ResponseItems(response) ==
  IF response.isArray THEN Len(response.data)
  ELSE IF response.hasData
  THEN (IF response.total # 0 THEN response.total
        ELSE IF Len(response.data) # 0 THEN Len(response.data)
        ELSE 0)
  ELSE 0

\* The `next` handler of loadAlerts(): the answer to request i arrives.
AlertsNext ==
  \E i \in 1 .. Len(alertRequests) :
    LET response == ServerResponse(alertRequests[i], apiShape)
        items    == ResponseItems(response)
    IN  /\ alertRequests' = RemoveAt(alertRequests, i)
        /\ detailLoading' = FALSE
        /\ alerts' = ResponseAlerts(response)
        /\ totalItems' = items
        /\ totalPages' = MathCeilDiv(items, pageSize)
        /\ UNCHANGED <<productId, detailError, startDate, endDate, currentPage, detailPc>>
        /\ UNCHANGED <<localStorage, url, last, otherVars>>

\* The `error` handler of loadAlerts(): request i fails.  After a 401 the
\* router shows the login page and the DetailComponent is gone, with the
\* requests it still had in flight.
AlertsError ==
  \E i \in 1 .. Len(alertRequests), status \in AlertErrorStatuses :
    /\ detailLoading' = FALSE
    /\ detailError' = IF status = 401 THEN MsgAuthFail
                      ELSE IF status = 0 THEN MsgNoServer
                      ELSE MsgLoadFail(status)
    /\ url' = IF status = 401 THEN "/login" ELSE url
    /\ detailPc' = IF status = 401 THEN "none" ELSE detailPc
    /\ alertRequests' = IF status = 401 THEN <<>> ELSE RemoveAt(alertRequests, i)
    /\ UNCHANGED <<productId, startDate, endDate, currentPage, totalItems,
                   totalPages, alerts>>
    /\ UNCHANGED <<localStorage, last, otherVars>>

\* The router opens /detail/:id for a user the guard lets in: a new
\* DetailComponent with the initial field values.
ProductIds == {"", "product_1"}

OpenDetail ==
  \E id \in ProductIds :
    /\ url # "/detail"
    /\ canActivate(localStorage, now, now)
    /\ url' = "/detail"
    /\ productId' = id /\ detailLoading' = FALSE /\ detailError' = ""
    /\ startDate' = "" /\ endDate' = "" /\ currentPage' = 1
    /\ totalItems' = 0 /\ totalPages' = 0 /\ alerts' = <<>>
    /\ detailPc' = "constructed" /\ alertRequests' = <<>>
    /\ UNCHANGED <<localStorage, last, otherVars>>

\* Another tab of the application logs out; this tab's store loses the session.
OtherTabLogout ==
  /\ Truthy(getAuthToken(localStorage))
  /\ ClearSession("otherTab")
  /\ UNCHANGED <<now, authCheck, guardResult, url, last, loginVars, detailVars, apiShape,
               viewVars, themeVars, formVars, homeVars>>

InitDetail ==
  /\ InitLogin /\ InitNoForm /\ InitNoHome /\ InitNoDetail /\ InitNoView /\ InitNoTheme
  /\ apiShape \in ResponseShapes
  /\ now = 0 /\ authCheck = NoCheck /\ guardResult = FALSE
  /\ url = "/login" /\ last = "init"
  /\ localStorage = setAuthToken(EmptyStorage, RealToken, "1hr")
  /\ sessionLog = [op |-> "set", by |-> "loginNext", token |-> RealToken,
                   expiry |-> "1hr", at |-> 0]

NextDetail ==
  \/ OpenDetail \/ NgOnInit \/ OnDateRangeChange
  \/ GoToPage \/ GoToPreviousPage \/ GoToNextPage \/ GoToFirstPage \/ GoToLastPage
  \/ AlertsNext \/ AlertsError \/ OtherTabLogout

SpecDetail == InitDetail /\ [][NextDetail]_vars

----------------------------------------------------------------------------
(* SpecRequests: the alert requests while the stored session changes *)

\* Another tab of the application logs in again; this tab's store gets the
\* new session in place of the one it had.
OtherTabLogin ==
  /\ getAuthToken(localStorage) = RealToken
  /\ StoreSession("otherTab", RenewedToken, "1hr")
  /\ UNCHANGED <<now, authCheck, guardResult, url, last, loginVars, detailVars, apiShape,
               viewVars, themeVars, formVars, homeVars>>

\* The API answers with a bare array, a page of alerts at a time.
InitRequests == InitDetail /\ apiShape = "array"

NextRequests == NextDetail \/ OtherTabLogin

SpecRequests == InitRequests /\ [][NextRequests]_vars

----------------------------------------------------------------------------
(* DetailComponent: the pagination controls *)

MathMax(a, b) == IF a >= b THEN a ELSE b

maxVisiblePages == 5

\* Mutant of getPageNumbers: the window is not moved back when it runs past
\* the last page.
getPageNumbers_noShift(page, pages) ==
  LET startPage == MathMax(1, page - (maxVisiblePages \div 2))
      endPage   == MathMin(pages, startPage + maxVisiblePages - 1)
  IN  [i \in 1 .. (endPage - startPage + 1) |-> startPage + i - 1]

\* getPageNumbers() of a component on page `page` of `pages` pages.
getPageNumbers(page, pages) ==
  LET startPage0 == MathMax(1, page - (maxVisiblePages \div 2))
      endPage    == MathMin(pages, startPage0 + maxVisiblePages - 1)
      startPage  == IF endPage - startPage0 + 1 < maxVisiblePages
                    THEN MathMax(1, endPage - maxVisiblePages + 1)
                    ELSE startPage0
  IN  [i \in 1 .. (endPage - startPage + 1) |-> startPage + i - 1]

\* getEndItemNumber().
getEndItemNumber == MathMin(currentPage * pageSize, totalItems)

----------------------------------------------------------------------------
(* SpecPages: getPageNumbers() over every page position *)

MaxTotalPages == 8    \* largest page count drawn

InitPages ==
  /\ InitAuth /\ InitLogin /\ InitNoForm /\ InitNoHome /\ InitNoView /\ InitNoTheme
  /\ apiShape = "dataTotal" /\ localStorage = EmptyStorage
  /\ productId = "product_1" /\ detailLoading = FALSE /\ detailError = ""
  /\ startDate = DefaultStart /\ endDate = DefaultEnd
  /\ alerts = <<>> /\ detailPc = "ready" /\ alertRequests = <<>>
  /\ totalPages \in -1 .. MaxTotalPages
  /\ totalItems = IF totalPages > 0 THEN totalPages * pageSize ELSE 0
  /\ currentPage \in -1 .. (MaxTotalPages + 3)

\* The template calls getPageNumbers() to draw the page buttons.
GetPageNumbers ==
  /\ viewPc = "idle"
  /\ viewPc' = "getPageNumbers"
  /\ pageNumbers' = getPageNumbers(currentPage, totalPages)
  /\ UNCHANGED <<alert, fieldType, fieldValue, duration, durationText,
                 datetime, dateTimeText>>
  /\ UNCHANGED <<authVars, loginVars, detailVars, apiShape, themeVars, formVars, homeVars>>

NextPages == GetPageNumbers

SpecPages == InitPages /\ [][NextPages]_vars

----------------------------------------------------------------------------
(* DetailComponent: reading a field of an alert record *)

\* fieldMappings: the candidate keys of each logical field, in order.
fieldMappings ==
  [datetime |-> <<"dateTime", "dateTimeString", "datetime", "date", "timestamp",
                  "time", "created_at", "createdAt", "alert_time", "alertTime">>,
   remark   |-> <<"remark", "description", "message", "note", "comment",
                  "details", "text">>,
   status   |-> <<"status", "state", "alert_status", "alertStatus", "type">>,
   duration |-> <<"duration", "durationString", "duration_ms", "duration_seconds",
                  "durationSeconds", "durationMs", "time_duration", "timeDuration">>]

\* Property names every object literal inherits from Object.prototype: looked
\* up on fieldMappings they yield a function or an object, not undefined.
ObjectPrototypeKeys ==
  {"constructor", "toString", "toLocaleString", "valueOf", "hasOwnProperty",
   "isPrototypeOf", "propertyIsEnumerable", "__proto__"}

\* A value that stands for an exception thrown out of the helper.
Thrown(name) == JsValue("thrown", name, 0, FALSE)

\* alert[field]: undefined for a key the record does not have.
AlertProperty(a, field) ==
  IF field \in DOMAIN a THEN a[field] ELSE JsUndefined

\* The for-of loop over possibleFields, from position i on.
RECURSIVE FirstField(_, _, _)
FirstField(a, possibleFields, i) ==
  IF i > Len(possibleFields) THEN JsNull
  ELSE LET v == AlertProperty(a, possibleFields[i])
       IN  IF v # JsUndefined /\ v # JsNull /\ v # JsString("")
           THEN v
           ELSE FirstField(a, possibleFields, i + 1)

\* getAlertField(alert, fieldType).  `fieldMappings[fieldType] || []` is the
\* candidate list of an own key, the empty list when the lookup is undefined,
\* and an inherited member of Object.prototype otherwise, over which for-of
\* throws a TypeError ("possibleFields is not iterable").
getAlertField(a, ft) ==
  IF ft \in DOMAIN fieldMappings THEN FirstField(a, fieldMappings[ft], 1)
  ELSE IF ft \in ObjectPrototypeKeys THEN Thrown("TypeError")
  ELSE FirstField(a, <<>>, 1)

----------------------------------------------------------------------------
(* SpecField: getAlertField() over alert records and field names *)

MaxAlertKeys == 2     \* keys an alert record drawn for getAlertField() holds

AlertKeys   == {"status", "state", "type", "dateTime", "timestamp",
                "remark", "message", "duration", "durationString"}
AlertValues == {JsNull, JsString(""), JsString("OK"), JsString("3 hrs"), JsNumber(0)}
Alerts      == UNION { [K -> AlertValues] :
                       K \in { S \in SUBSET AlertKeys : Cardinality(S) <= MaxAlertKeys } }
FieldTypes  == {"datetime", "remark", "status", "duration", "severity", "",
                "constructor"}

InitField ==
  /\ InitAuth /\ InitLogin /\ InitNoForm /\ InitNoHome /\ InitNoDetail /\ InitNoTheme
  /\ apiShape = "dataTotal" /\ localStorage = EmptyStorage
  /\ viewPc = "idle" /\ pageNumbers = <<>>
  /\ alert \in Alerts /\ fieldType \in FieldTypes /\ fieldValue = JsNull
  /\ duration = JsNull /\ durationText = ""
  /\ datetime = JsNull /\ dateTimeText = ""

\* The template reads a logical field of the record.
GetAlertField ==
  /\ viewPc = "idle"
  /\ viewPc' = "getAlertField"
  /\ fieldValue' = getAlertField(alert, fieldType)
  /\ UNCHANGED <<pageNumbers, alert, fieldType, duration, durationText,
                 datetime, dateTimeText>>
  /\ UNCHANGED <<authVars, loginVars, detailVars, apiShape, themeVars, formVars, homeVars>>

NextField == GetAlertField

SpecField == InitField /\ [][NextField]_vars

----------------------------------------------------------------------------
(* DetailComponent: formatting a duration *)

JsNaN      == JsValue("number", "NaN", 0, FALSE)
JsInfinity == JsValue("number", "Infinity", 0, FALSE)
JsObject   == JsValue("object", "[object Object]", 0, FALSE)

\* !v: undefined, null, false, 0, NaN and "" are falsy.
JsFalsy(v) ==
  \/ v.t \in {"undefined", "null"}
  \/ v.t = "boolean" /\ v.n = 0
  \/ v.t = "number" /\ (v.s = "NaN" \/ (v.s = "" /\ v.n = 0))
  \/ v.t = "string" /\ v.s = ""

\* String(v) of a number: a finite number with kilo set ends in "000".
NumberToString(v) ==
  IF v.s # "" THEN v.s
  ELSE IF v.kilo /\ v.n # 0 THEN ToString(v.n) \o "000"
  ELSE ToString(v.n)

\* String(v).
JsToString(v) ==
  CASE v.t = "string"    -> v.s
    [] v.t = "number"    -> NumberToString(v)
    [] v.t = "boolean"   -> (IF v.n = 1 THEN "true" ELSE "false")
    [] v.t = "null"      -> "null"
    [] v.t = "undefined" -> "undefined"
    [] OTHER             -> v.s

\* a % b of JavaScript, b > 0: the remainder has the sign of a.
JsRemainder(a, b) == IF a >= 0 THEN a % b ELSE -((-a) % b)

\* Math.floor(a / b) on integers, b > 0.
MathFloorDiv(a, b) == a \div b

\* formatDuration(duration); the numbers drawn are whole minutes.
formatDuration(d) ==
  IF JsFalsy(d) THEN "N/A"
  ELSE IF d.t = "string" THEN d.s
  ELSE IF d.t = "number"
       THEN IF d.s = "Infinity" THEN "Infinity hrs NaN mins"
            ELSE ToString(MathFloorDiv(d.n, 60)) \o " hrs "
                   \o ToString(JsRemainder(d.n, 60)) \o " mins"
  ELSE JsToString(d)

----------------------------------------------------------------------------
(* SpecDuration: formatDuration() over durations of every type *)

MaxMinutes == 130     \* largest number of minutes drawn, in absolute value

Durations ==
  { JsNumber(n) : n \in (-MaxMinutes) .. MaxMinutes }
    \cup {JsNull, JsUndefined, JsNaN, JsBoolean(FALSE), JsBoolean(TRUE),
          JsString(""), JsString("3 hrs"), JsString("0"), JsObject}

InitDuration ==
  /\ InitAuth /\ InitLogin /\ InitNoForm /\ InitNoHome /\ InitNoDetail /\ InitNoTheme
  /\ apiShape = "dataTotal" /\ localStorage = EmptyStorage
  /\ viewPc = "idle" /\ pageNumbers = <<>>
  /\ alert = <<>> /\ fieldType = "" /\ fieldValue = JsNull
  /\ duration \in Durations /\ durationText = ""
  /\ datetime = JsNull /\ dateTimeText = ""

\* The template formats the duration cell of a row.
FormatDuration ==
  /\ viewPc = "idle"
  /\ viewPc' = "formatDuration"
  /\ durationText' = formatDuration(duration)
  /\ UNCHANGED <<pageNumbers, alert, fieldType, fieldValue, duration,
                 datetime, dateTimeText>>
  /\ UNCHANGED <<authVars, loginVars, detailVars, apiShape, themeVars, formVars, homeVars>>

NextDuration == FormatDuration

SpecDuration == InitDuration /\ [][NextDuration]_vars

----------------------------------------------------------------------------
(* DetailComponent: formatting a timestamp *)

\* A Date object: valid or not, and its calendar fields in UTC.
DateValue(y, mo, d, h, mi, sec) ==
  [valid |-> TRUE, y |-> y, mo |-> mo, d |-> d, h |-> h, mi |-> mi, sec |-> sec]
InvalidDate ==
  [valid |-> FALSE, y |-> 0, mo |-> 0, d |-> 0, h |-> 0, mi |-> 0, sec |-> 0]

DigitChars == {"0", "1", "2", "3", "4", "5", "6", "7", "8", "9"}

IsDigits(s) == \A i \in 1 .. Len(s) : SubSeq(s, i, i) \in DigitChars

DigitValue(c) ==
  CASE c = "0" -> 0 [] c = "1" -> 1 [] c = "2" -> 2 [] c = "3" -> 3 [] c = "4" -> 4
    [] c = "5" -> 5 [] c = "6" -> 6 [] c = "7" -> 7 [] c = "8" -> 8 [] OTHER -> 9

\* The number a text of digits denotes.
RECURSIVE ParseDigits(_)
ParseDigits(s) ==
  IF s = "" THEN 0
  ELSE 10 * ParseDigits(SubSeq(s, 1, Len(s) - 1)) + DigitValue(SubSeq(s, Len(s), Len(s)))

IsLeapYear(y) == (y % 4 = 0 /\ y % 100 # 0) \/ y % 400 = 0

DaysInMonth(y, mo) ==
  IF mo = 2 THEN (IF IsLeapYear(y) THEN 29 ELSE 28)
  ELSE IF mo \in {4, 6, 9, 11} THEN 30 ELSE 31

\* new Date(text).  The ISO forms YYYY-MM-DD, YYYY-MM-DDTHH:MM:SSZ and
\* YYYY-MM-DDTHH:MM:SS.sssZ with legal field values give that instant; the
\* other texts drawn hold no date in any form, and give an invalid Date.
DateFromString(s) ==
  LET n == Len(s)
      dateOk == /\ n >= 10
                /\ IsDigits(SubSeq(s, 1, 4)) /\ SubSeq(s, 5, 5) = "-"
                /\ IsDigits(SubSeq(s, 6, 7)) /\ SubSeq(s, 8, 8) = "-"
                /\ IsDigits(SubSeq(s, 9, 10))
      timeOk == /\ n \in {20, 24}
                /\ SubSeq(s, 11, 11) = "T"
                /\ IsDigits(SubSeq(s, 12, 13)) /\ SubSeq(s, 14, 14) = ":"
                /\ IsDigits(SubSeq(s, 15, 16)) /\ SubSeq(s, 17, 17) = ":"
                /\ IsDigits(SubSeq(s, 18, 19))
                /\ SubSeq(s, n, n) = "Z"
                /\ n = 24 => (SubSeq(s, 20, 20) = "." /\ IsDigits(SubSeq(s, 21, 23)))
      y   == ParseDigits(SubSeq(s, 1, 4))
      mo  == ParseDigits(SubSeq(s, 6, 7))
      d   == ParseDigits(SubSeq(s, 9, 10))
      h   == IF n = 10 THEN 0 ELSE ParseDigits(SubSeq(s, 12, 13))
      mi  == IF n = 10 THEN 0 ELSE ParseDigits(SubSeq(s, 15, 16))
      sec == IF n = 10 THEN 0 ELSE ParseDigits(SubSeq(s, 18, 19))
  IN  IF dateOk /\ (n = 10 \/ timeOk)
         /\ mo >= 1 /\ mo <= 12 /\ d >= 1 /\ d <= DaysInMonth(y, mo)
         /\ h <= 23 /\ mi <= 59 /\ sec <= 59
      THEN DateValue(y, mo, d, h, mi, sec)
      ELSE InvalidDate

\* The Date that lies `days` days and `sod` seconds after the epoch.
DateFromDays(days, sod) ==
  LET z   == days + 719468
      era == z \div 146097
      doe == z - era * 146097
      yoe == (doe - (doe \div 1460) + (doe \div 36524) - (doe \div 146096)) \div 365
      doy == doe - (365 * yoe + (yoe \div 4) - (yoe \div 100))
      mp  == (5 * doy + 2) \div 153
      d   == doy - ((153 * mp + 2) \div 5) + 1
      mo  == IF mp < 10 THEN mp + 3 ELSE mp - 9
      y   == yoe + era * 400 + (IF mo <= 2 THEN 1 ELSE 0)
  IN  DateValue(y, mo, d, sod \div 3600, (sod % 3600) \div 60, sod % 60)

DaySeconds == 24 * 60 * 60

\* The date built from a number (lines 476-484): above 1000000000000 it is
\* a count of milliseconds, otherwise a count of seconds.  A finite number of
\* the model is a whole number of seconds or, with kilo, of thousands.
DateFromNumber(v) ==
  IF v.s # "" THEN InvalidDate
  ELSE IF v.kilo /\ v.n > 1000000000
  THEN DateFromDays(v.n \div DaySeconds, v.n % DaySeconds)
  ELSE IF v.kilo
  THEN DateFromDays((v.n \div DaySeconds) * 1000 + ((v.n % DaySeconds) * 1000) \div DaySeconds,
                    ((v.n % DaySeconds) * 1000) % DaySeconds)
  ELSE DateFromDays(v.n \div DaySeconds, v.n % DaySeconds)

\* The date the try block builds from a value of any type (lines 464-488);
\* new Date(true) is the instant 1 ms after the epoch, new Date(null) and
\* new Date(false) the epoch, and an object or undefined gives an invalid Date.
DateOf(v) ==
  CASE v.t = "string"  -> DateFromString(v.s)
    [] v.t = "number"  -> DateFromNumber(v)
    [] v.t \in {"boolean", "null"} -> DateFromDays(0, 0)
    [] OTHER           -> InvalidDate

\* date.toLocaleString('en-US', {2-digit fields, hour12: false}), the zone
\* of the browser being UTC: MM/DD/YYYY, HH:MM:SS.
toLocaleString(date) ==
  IF ~date.valid THEN "Invalid Date"
  ELSE Pad2(date.mo) \o "/" \o Pad2(date.d) \o "/" \o ToString(date.y) \o ", "
         \o Pad2(date.h) \o ":" \o Pad2(date.mi) \o ":" \o Pad2(date.sec)

\* Mutant of formatDateTime: the validity of the date is not checked.
formatDateTime_noValidityCheck(v) ==
  IF JsFalsy(v) THEN "N/A" ELSE toLocaleString(DateOf(v))

\* formatDateTime(datetime).  No value drawn makes new Date() throw, so the
\* catch block is not entered.
formatDateTime(v) ==
  IF JsFalsy(v) THEN "N/A"
  ELSE LET date == DateOf(v)
       IN  IF ~date.valid THEN JsToString(v) ELSE toLocaleString(date)

----------------------------------------------------------------------------
(* SpecDateTime: formatDateTime() over timestamps of every type *)

MaxSeconds == 60      \* largest count of seconds drawn, in absolute value

DateTimes ==
  { JsNumber(n) : n \in (-MaxSeconds) .. MaxSeconds }
    \cup { JsValue("number", "", q, TRUE) : q \in {1000000000, 1000000001, 1643538600} }
    \cup { JsString(s) : s \in {"", "not-a-date", "N/A", "pending", "T", "-",
                                "2022-13-45", "2022-01-30",
                                "2022-01-30T10:30:00Z", "2022-01-30T10:30:00.000Z",
                                "2024-02-29T23:59:59Z", "2022-01-30T25:00:00Z"} }
    \cup {JsNull, JsUndefined, JsNaN, JsInfinity, JsBoolean(FALSE), JsBoolean(TRUE),
          JsObject}

InitDateTime ==
  /\ InitAuth /\ InitLogin /\ InitNoForm /\ InitNoHome /\ InitNoDetail /\ InitNoTheme
  /\ apiShape = "dataTotal" /\ localStorage = EmptyStorage
  /\ viewPc = "idle" /\ pageNumbers = <<>>
  /\ alert = <<>> /\ fieldType = "" /\ fieldValue = JsNull
  /\ duration = JsNull /\ durationText = ""
  /\ datetime \in DateTimes /\ dateTimeText = ""

\* The template formats the date cell of a row.
FormatDateTime ==
  /\ viewPc = "idle"
  /\ viewPc' = "formatDateTime"
  /\ dateTimeText' = formatDateTime(datetime)
  /\ UNCHANGED <<pageNumbers, alert, fieldType, fieldValue, duration,
                 durationText, datetime>>
  /\ UNCHANGED <<authVars, loginVars, detailVars, apiShape, themeVars, formVars, homeVars>>

NextDateTime == FormatDateTime

SpecDateTime == InitDateTime /\ [][NextDateTime]_vars

----------------------------------------------------------------------------
(* ThemeService *)

DEFAULT_THEME == "light"
Themes == {"light", "dark"}

\* Mutant of getStoredTheme: the stored text is not checked.
getStoredTheme_unchecked(ls, throws) ==
  IF throws THEN DEFAULT_THEME
  ELSE IF getItem(ls, THEME_KEY) # NULL THEN getItem(ls, THEME_KEY) ELSE DEFAULT_THEME

\* getStoredTheme(); `throws` tells whether localStorage.getItem raised.
getStoredTheme(ls, throws) ==
  IF throws THEN DEFAULT_THEME
  ELSE LET stored == getItem(ls, THEME_KEY)
       IN  IF stored = "light" \/ stored = "dark" THEN stored ELSE DEFAULT_THEME

\* Mutant of storeTheme: nothing is written.
storeTheme_skip(ls, theme, throws) == ls

\* storeTheme(theme); `throws` tells whether localStorage.setItem raised.
storeTheme(ls, theme, throws) ==
  IF throws THEN ls ELSE setItem(ls, THEME_KEY, theme)

\* getCurrentTheme() of service i.
getCurrentTheme(i) == themeSubject[i]

\* setTheme(theme) of service i: themeSubject.next, storeTheme, applyTheme.
setTheme(i, theme, throws) ==
  /\ themeSubject' = [themeSubject EXCEPT ![i] = theme]
  /\ localStorage' = storeTheme(localStorage, theme, throws)
  /\ documentTheme' = theme

\* The theme toggleTheme() passes to setTheme().
flipTheme(currentTheme) == IF currentTheme = "light" THEN "dark" ELSE "light"

\* What a ThemeService call leaves alone.
themeOther == <<now, authCheck, sessionLog, guardResult, url, last,
                loginVars, detailVars, apiShape, viewVars, formVars, homeVars>>

\* new ThemeService(): the field initialiser and the constructor both read
\* the stored theme; the constructor applies it.
NewThemeService ==
  \E i \in Services, throws \in BOOLEAN :
    /\ themeSubject[i] = NoService
    /\ themeSubject' = [themeSubject EXCEPT ![i] = getStoredTheme(localStorage, throws)]
    /\ documentTheme' = getStoredTheme(localStorage, throws)
    /\ themeCall' = [themeCall EXCEPT !.op = "new", !.service = i, !.stored = ~throws,
                                      !.toggles = 0, !.origin = NULL]
    /\ UNCHANGED <<localStorage, themeOther>>

ToggleTheme ==
  \E i \in Services, throws \in BOOLEAN :
    /\ themeSubject[i] # NoService
    /\ setTheme(i, flipTheme(getCurrentTheme(i)), throws)
    /\ themeCall' =
         LET again == themeCall.op = "toggle" /\ themeCall.service = i
                        /\ themeCall.toggles < 2
         IN  [op |-> "toggle", service |-> i, stored |-> ~throws,
              toggles |-> IF again THEN themeCall.toggles + 1 ELSE 1,
              origin  |-> IF again THEN themeCall.origin ELSE getCurrentTheme(i),
              writer  |-> IF throws THEN themeCall.writer ELSE i]
    /\ UNCHANGED themeOther

SetTheme ==
  \E i \in Services, theme \in Themes, throws \in BOOLEAN :
    /\ themeSubject[i] # NoService
    /\ setTheme(i, theme, throws)
    /\ themeCall' = [op |-> "set", service |-> i, stored |-> ~throws,
                     toggles |-> 0, origin |-> NULL,
                     writer |-> IF throws THEN themeCall.writer ELSE i]
    /\ UNCHANGED themeOther

\* localStorage.clear()
ClearStorage ==
  /\ localStorage # EmptyStorage
  /\ localStorage' = EmptyStorage
  /\ themeCall' = [op |-> "clear", service |-> 0, stored |-> FALSE,
                   toggles |-> 0, origin |-> NULL, writer |-> 0]
  /\ UNCHANGED <<themeSubject, documentTheme, themeOther>>

\* What the store holds under 'app-theme' when the application starts.
StoredThemes == {NULL, "", "blue", "light", "dark"}

InitTheme ==
  /\ InitLogin /\ InitNoForm /\ InitNoHome /\ InitNoDetail /\ InitNoView /\ InitNoTheme
  /\ apiShape = "dataTotal"
  /\ now = 0 /\ authCheck = NoCheck /\ sessionLog = NoSession
  /\ guardResult = FALSE /\ url = "/login" /\ last = "init"
  /\ localStorage \in { setItem(EmptyStorage, THEME_KEY, v) : v \in StoredThemes }

NextTheme == NewThemeService \/ ToggleTheme \/ SetTheme \/ ClearStorage

SpecTheme == InitTheme /\ [][NextTheme]_vars

----------------------------------------------------------------------------
(* LoginComponent: validating the form *)

\* Mutant of validateForm: one long enough field is enough.
validateForm_either(u, p) == Len(u) >= 3 \/ Len(p) >= 6

\* validateForm(): the value it gives isFormValid for the fields u and p.
validateForm(u, p) == Len(u) >= 3 /\ Len(p) >= 6

----------------------------------------------------------------------------
(* SpecForm: validateForm() over the contents of the login form *)

MaxNameLen == 4    \* longest username typed
MaxPassLen == 7    \* longest password typed

\* What the user types: the first letters of a name and of a password, and
\* fields of blanks.
FormUsernames == { SubSeq(correctUsername, 1, n) : n \in 0 .. MaxNameLen } \cup {"   "}
FormPasswords == { SubSeq(correctPassword, 1, n) : n \in 0 .. MaxPassLen } \cup {"      "}

formOther == <<localStorage, now, authCheck, sessionLog, guardResult, url,
               loginMessage, loginLoading, loginPending, orphanPending, navTimers,
               detailVars, apiShape, viewVars, themeVars, homeVars>>

\* The two-way binding of the inputs writes the typed text into the fields.
TypeUsername ==
  \E u \in FormUsernames :
    /\ username' = u
    /\ last' = "input"
    /\ UNCHANGED <<password, isFormValid, formOther>>

TypePassword ==
  \E p \in FormPasswords :
    /\ password' = p
    /\ last' = "input"
    /\ UNCHANGED <<username, isFormValid, formOther>>

ValidateForm ==
  /\ isFormValid' = validateForm(username, password)
  /\ last' = "validateForm"
  /\ UNCHANGED <<username, password, formOther>>

InitForm ==
  /\ InitAuth /\ InitLogin /\ InitNoForm /\ InitNoHome /\ InitNoDetail
  /\ InitNoView /\ InitNoTheme
  /\ apiShape = "dataTotal"
  /\ localStorage = EmptyStorage

NextForm == TypeUsername \/ TypePassword \/ ValidateForm

SpecForm == InitForm /\ [][NextForm]_vars

----------------------------------------------------------------------------
(* HomeComponent: loading the product list *)

MsgTestMode ==
  "Test mode: API authentication failed (expected with test tokens). Products cannot be loaded."
MsgProductsFail == "Failed to load products. Please try again later."

\* The products the API holds; Object.values() of its answer.
ServerProducts ==
  << Product("product_1", "Router", "https://shop.example/router"),
     Product("product_2", "Modem", "https://shop.example/modem") >>

ProductErrorStatuses == {0, 401, 500}

homeOther == <<now, authCheck, guardResult, loginVars, detailVars, apiShape,
               viewVars, themeVars, formVars>>

HomeShown == url = "/home" /\ homePc # "none"

\* The HomeComponent is destroyed; the requests it had in flight stay in flight.
HomeGone ==
  /\ products' = <<>> /\ homeLoading' = FALSE /\ homeError' = ""
  /\ editingProduct' = EmptyProduct /\ productToDelete' = NoProduct
  /\ showEditModal' = FALSE /\ showDeleteModal' = FALSE
  /\ homePc' = "none"
  /\ productRequests' = 0

\* loadProducts(): getProductList() throws when no token is stored, after the
\* fields have been set; otherwise the request is sent.
loadProducts ==
  /\ homeLoading' = TRUE
  /\ homeError' = ""
  /\ products' = <<>>
  /\ IF ~Truthy(getAuthToken(localStorage))
     THEN /\ homePc' = "threw"
          /\ UNCHANGED productRequests
     ELSE /\ productRequests + orphanProductRequests < MaxProductRequests
          /\ productRequests' = productRequests + 1
          /\ homePc' = "loading"

\* The router shows /home for a user the guard lets in; ngOnInit() sends an
\* unauthenticated user back to /login and loads the products otherwise.
OpenHome ==
  /\ url # "/home"
  /\ canActivate(localStorage, now, now)
  /\ last' = "homeNgOnInit"
  /\ IF ~isAuthenticated(localStorage, now, now)
     THEN /\ url' = "/login"
          /\ UNCHANGED <<products, homeLoading, homeError, homePc, productRequests>>
     ELSE /\ url' = "/home"
          /\ loadProducts
  /\ UNCHANGED <<editingProduct, productToDelete, showEditModal, showDeleteModal,
                 orphanProductRequests>>
  /\ UNCHANGED <<localStorage, sessionLog, homeOther>>

RefreshProducts ==
  /\ HomeShown
  /\ last' = "refreshProducts"
  /\ loadProducts
  /\ UNCHANGED <<editingProduct, productToDelete, showEditModal, showDeleteModal,
                 orphanProductRequests>>
  /\ UNCHANGED <<localStorage, sessionLog, url, homeOther>>

\* The request whose answer arrives: of the shown component, or an orphan.
TakeProductRequest(shown) ==
  IF shown THEN productRequests > 0 ELSE orphanProductRequests > 0

\* The `next` handler of loadProducts().
ProductsNext ==
  \E shown \in BOOLEAN :
    /\ TakeProductRequest(shown)
    /\ last' = "productsNext"
    /\ IF shown
       THEN /\ productRequests' = productRequests - 1
            /\ homeLoading' = FALSE
            /\ products' = ServerProducts
            /\ homePc' = "loaded"
            /\ UNCHANGED orphanProductRequests
       ELSE /\ orphanProductRequests' = orphanProductRequests - 1
            /\ UNCHANGED <<productRequests, homeLoading, products, homePc>>
    /\ UNCHANGED <<homeError, editingProduct, productToDelete, showEditModal,
                   showDeleteModal>>
    /\ UNCHANGED <<localStorage, sessionLog, url, homeOther>>

\* Mutant of isTestToken: every token counts as a test token.
isTestToken_any(token) == Truthy(token)

isTestToken(token) ==
  Truthy(token) /\ (startsWith(token, "test-token-") \/ startsWith(token, "mock-jwt-token-"))

\* The `error` handler of loadProducts() for an error with `status`; `shown`
\* tells whether the HomeComponent that sent the request is still on the page.
\* logout() clears the session and navigates to /login, which destroys the
\* HomeComponent on the page.
productsError(status, shown) ==
  LET token   == getAuthToken(localStorage)
      message == IF status = 401
                 THEN (IF isTestToken(token) THEN MsgTestMode ELSE MsgAuthFail)
                 ELSE IF status = 0 THEN MsgNoServer
                 ELSE MsgProductsFail
      pending == IF shown THEN productRequests - 1 ELSE productRequests
      orphans == IF shown THEN orphanProductRequests ELSE orphanProductRequests - 1
  IN  /\ TakeProductRequest(shown)
      /\ last' = "productsError"
      /\ IF status = 401 /\ ~isTestToken(token)
         THEN /\ ClearSession("logout")
              /\ url' = "/login"
              /\ HomeGone
              /\ orphanProductRequests' = orphans + pending
         ELSE /\ homeLoading' = IF shown THEN FALSE ELSE homeLoading
              /\ homeError' = IF shown THEN message ELSE homeError
              /\ homePc' = IF shown THEN "failed" ELSE homePc
              /\ productRequests' = pending
              /\ orphanProductRequests' = orphans
              /\ UNCHANGED <<products, editingProduct, productToDelete, showEditModal,
                             showDeleteModal>>
              /\ UNCHANGED <<localStorage, sessionLog, url>>
      /\ UNCHANGED homeOther

ProductsError ==
  \E status \in ProductErrorStatuses, shown \in BOOLEAN : productsError(status, shown)

\* logout() from the home page.
HomeLogout ==
  /\ HomeShown
  /\ last' = "logout"
  /\ ClearSession("logout")
  /\ url' = "/login"
  /\ HomeGone
  /\ orphanProductRequests' = orphanProductRequests + productRequests
  /\ UNCHANGED homeOther

----------------------------------------------------------------------------
(* SpecHome: the home page under real and test sessions *)

\* The user has logged in, or has used testNavigation() or the fallback of a
\* failed login.
HomeSessions ==
  { [token |-> RealToken, expiry |-> "1hr", by |-> "loginNext"],
    [token |-> "test-token-0", expiry |-> toISOString(DayMs), by |-> "testNavigation"],
    [token |-> "mock-jwt-token-0", expiry |-> toISOString(DayMs), by |-> "loginError"] }

InitHome ==
  /\ InitLogin /\ InitNoForm /\ InitNoHome /\ InitNoDetail /\ InitNoView /\ InitNoTheme
  /\ apiShape = "dataTotal"
  /\ now = 0 /\ authCheck = NoCheck /\ guardResult = FALSE
  /\ url = "/login" /\ last = "init"
  /\ \E session \in HomeSessions :
       /\ localStorage = setAuthToken(EmptyStorage, session.token, session.expiry)
       /\ sessionLog = [op |-> "set", by |-> session.by, token |-> session.token,
                        expiry |-> session.expiry, at |-> 0]

\* Another tab of the application stores a session.
OtherTabSignIn ==
  \E session \in HomeSessions :
    /\ getAuthToken(localStorage) # session.token
    /\ StoreSession("otherTab", session.token, session.expiry)
    /\ UNCHANGED <<now, url, last, authCheck, guardResult>>
    /\ UNCHANGED <<loginVars, detailVars, apiShape, viewVars, themeVars, formVars, homeVars>>

NextHome ==
  \/ OpenHome \/ RefreshProducts \/ ProductsNext \/ ProductsError
  \/ HomeLogout \/ OtherTabLogout \/ OtherTabSignIn

SpecHome == InitHome /\ [][NextHome]_vars

----------------------------------------------------------------------------
(* HomeComponent: adding, editing and deleting products *)

\* What the user types into the add-product form and the edit form.
TypedProductName == " Switch "
TypedProductUrl  == " https://shop.example/switch "
EditedProductName == " Hub "

\* products.findIndex(p => p.id === id): the first match, -1 when none.
findIndex(list, id) ==
  IF \E i \in 1 .. Len(list) : list[i].id = id
  THEN (CHOOSE i \in 1 .. Len(list) :
          /\ list[i].id = id
          /\ \A j \in 1 .. i - 1 : list[j].id # id) - 1
  ELSE -1

\* Mutant of splice: list.splice(index) removes everything from index on.
splice_toEnd(list, index) == SubSeq(list, 1, index)

\* list.splice(index, 1)
splice(list, index) == RemoveAt(list, index + 1)

closeEditProductModal ==
  /\ showEditModal' = FALSE
  /\ editingProduct' = EmptyProduct

closeDeleteModal ==
  /\ showDeleteModal' = FALSE
  /\ productToDelete' = NoProduct

\* addProduct() with a filled form; the add form is emptied and its modal
\* closed on every path, so neither is a variable.
AddProduct ==
  /\ HomeShown
  /\ Len(products) < MaxProducts
  /\ last' = "addProduct"
  /\ products' = << Product("product_" \o ToString(now), trim(TypedProductName),
                            trim(TypedProductUrl)) >> \o products
  /\ UNCHANGED <<homeLoading, homeError, editingProduct, productToDelete, showEditModal,
                 showDeleteModal, homePc, productRequests, orphanProductRequests>>
  /\ UNCHANGED <<localStorage, sessionLog, url, homeOther>>

OpenEditProductModal ==
  \E i \in 1 .. Len(products) :
    /\ HomeShown
    /\ last' = "openEditProductModal"
    /\ editingProduct' = Product(products[i].id, products[i].productName,
                                 products[i].url)
    /\ showEditModal' = TRUE
    /\ UNCHANGED <<products, homeLoading, homeError, productToDelete, showDeleteModal,
                   homePc, productRequests, orphanProductRequests>>
    /\ UNCHANGED <<localStorage, sessionLog, url, homeOther>>

\* The user types a new name into the edit form.
TypeEditedName ==
  /\ HomeShown /\ showEditModal
  /\ editingProduct.productName # EditedProductName
  /\ last' = "typeEditedName"
  /\ editingProduct' = [editingProduct EXCEPT !.productName = EditedProductName]
  /\ UNCHANGED <<products, homeLoading, homeError, productToDelete, showEditModal,
                 showDeleteModal, homePc, productRequests, orphanProductRequests>>
  /\ UNCHANGED <<localStorage, sessionLog, url, homeOther>>

CloseEditProductModal ==
  /\ HomeShown /\ showEditModal
  /\ last' = "closeEditProductModal"
  /\ closeEditProductModal
  /\ UNCHANGED <<products, homeLoading, homeError, productToDelete, showDeleteModal,
                 homePc, productRequests, orphanProductRequests>>
  /\ UNCHANGED <<localStorage, sessionLog, url, homeOther>>

UpdateProduct ==
  LET productIndex == findIndex(products, editingProduct.id)
  IN  /\ HomeShown
      /\ last' = "updateProduct"
      /\ IF productIndex # -1
         THEN /\ products' = [products EXCEPT ![productIndex + 1] =
                                Product(editingProduct.id,
                                        trim(editingProduct.productName),
                                        trim(editingProduct.url))]
              /\ closeEditProductModal
         ELSE UNCHANGED <<products, editingProduct, showEditModal>>
      /\ UNCHANGED <<homeLoading, homeError, productToDelete, showDeleteModal,
                     homePc, productRequests, orphanProductRequests>>
      /\ UNCHANGED <<localStorage, sessionLog, url, homeOther>>

RemoveProduct ==
  LET productIndex == findIndex(products, editingProduct.id)
  IN  /\ HomeShown
      /\ last' = "removeProduct"
      /\ IF productIndex # -1
         THEN /\ products' = splice(products, productIndex)
              /\ closeEditProductModal
         ELSE UNCHANGED <<products, editingProduct, showEditModal>>
      /\ UNCHANGED <<homeLoading, homeError, productToDelete, showDeleteModal,
                     homePc, productRequests, orphanProductRequests>>
      /\ UNCHANGED <<localStorage, sessionLog, url, homeOther>>

OpenDeleteModal ==
  \E i \in 1 .. Len(products) :
    /\ HomeShown
    /\ last' = "openDeleteModal"
    /\ productToDelete' = products[i]
    /\ showDeleteModal' = TRUE
    /\ UNCHANGED <<products, homeLoading, homeError, editingProduct, showEditModal,
                   homePc, productRequests, orphanProductRequests>>
    /\ UNCHANGED <<localStorage, sessionLog, url, homeOther>>

CloseDeleteModal ==
  /\ HomeShown /\ showDeleteModal
  /\ last' = "closeDeleteModal"
  /\ closeDeleteModal
  /\ UNCHANGED <<products, homeLoading, homeError, editingProduct, showEditModal,
                 homePc, productRequests, orphanProductRequests>>
  /\ UNCHANGED <<localStorage, sessionLog, url, homeOther>>

ConfirmDeleteProduct ==
  /\ HomeShown
  /\ last' = "confirmDeleteProduct"
  /\ IF productToDelete # NoProduct
     THEN LET productIndex == findIndex(products, productToDelete.id)
          IN  /\ products' = IF productIndex # -1
                             THEN splice(products, productIndex)
                             ELSE products
              /\ closeDeleteModal
              /\ closeEditProductModal
     ELSE UNCHANGED <<products, editingProduct, productToDelete, showEditModal,
                      showDeleteModal>>
  /\ UNCHANGED <<homeLoading, homeError, homePc, productRequests, orphanProductRequests>>
  /\ UNCHANGED <<localStorage, sessionLog, url, homeOther>>

----------------------------------------------------------------------------
(* SpecProducts: the product list of the home page and its modals *)

InitProducts ==
  /\ InitHome
  /\ getAuthToken(localStorage) = RealToken

NextProducts ==
  \/ OpenHome \/ RefreshProducts \/ ProductsNext
  \/ AddProduct \/ OpenEditProductModal \/ TypeEditedName \/ CloseEditProductModal
  \/ UpdateProduct \/ RemoveProduct
  \/ OpenDeleteModal \/ CloseDeleteModal \/ ConfirmDeleteProduct

SpecProducts == InitProducts /\ [][NextProducts]_vars

----------------------------------------------------------------------------
(* Claims about the session record *)

StoredToken  == getItem(localStorage, "authToken")
StoredExpiry == getItem(localStorage, "tokenExpiry")

\* C1: with a non-empty token and the stored expiry "1hr", isAuthenticated()
\* returns true at every check time, however long ago the session was stored.
C1_OneHourSentinelAlwaysValid ==
  (Truthy(StoredToken) /\ StoredExpiry = "1hr") =>
     /\ \A g \in ReadGaps : isAuthenticated(localStorage, now, now + g)
     /\ authCheck.called => authCheck.result = TRUE

\* The "1hr" session is checked more than a day after it was stored.
C1_Witness ==
  /\ Truthy(StoredToken) /\ StoredExpiry = "1hr"
  /\ sessionLog.op = "set"
  /\ now >= sessionLog.at + DayMs
  /\ authCheck.called /\ authCheck.result = TRUE

\* C2: with a token and a stored expiry that parses to an instant e,
\* isAuthenticated() returns true exactly when e is strictly later than the
\* instant of the check.
C2_ExpiryStrictlyLater ==
  (authCheck.called /\ Truthy(StoredToken) /\ Truthy(StoredExpiry)
     /\ StoredExpiry # "1hr" /\ ~isNaN(DateParse(StoredExpiry))) =>
       (authCheck.result <=> DateParse(StoredExpiry) > now + authCheck.gap)

\* The check happens at the very instant of the expiry and reports false.
C2_Witness ==
  /\ authCheck.called /\ Truthy(StoredToken)
  /\ StoredExpiry # "1hr" /\ DateParse(StoredExpiry) = now + authCheck.gap
  /\ authCheck.result = FALSE

\* C3: for every store content isAuthenticated() returns a boolean, and false
\* when the token or the expiry is absent or empty, or the expiry is neither
\* "1hr" nor a parseable timestamp.
C3_MalformedStoreIsInvalid ==
  authCheck.called =>
    /\ authCheck.result \in BOOLEAN
    /\ (\/ ~Truthy(StoredToken)
        \/ ~Truthy(StoredExpiry)
        \/ (StoredExpiry # "1hr" /\ isNaN(DateParse(StoredExpiry))))
         => authCheck.result = FALSE

\* A check with the "1hr" expiry but no token, answered false.
C3_Witness ==
  /\ authCheck.called /\ authCheck.result = FALSE
  /\ StoredToken = NULL /\ StoredExpiry = "1hr"

\* C4: after logout() both keys are absent and isAuthenticated() is false
\* until the next setAuthToken; after setAuthToken(t, e) the store holds
\* exactly (t, e).
C4_LogoutClearsSetOverwrites ==
  /\ sessionLog.op = "logout" =>
       /\ StoredToken = NULL /\ StoredExpiry = NULL
       /\ \A g \in ReadGaps : ~isAuthenticated(localStorage, now, now + g)
       /\ authCheck.called => authCheck.result = FALSE
  /\ sessionLog.op = "set" =>
       /\ StoredToken = sessionLog.token
       /\ StoredExpiry = sessionLog.expiry

\* A guard check some time after a logout that ended a "1hr" session.
C4_Witness ==
  /\ sessionLog.op = "logout"
  /\ now > sessionLog.at
  /\ authCheck.called /\ authCheck.result = FALSE
  /\ last = "canActivate"

\* C5: a session record is stored only by a successful login (the API
\* answered success with a token); a rejected or failed attempt stores none.
C5_SessionOnlyOnSuccessfulLogin ==
  sessionLog.op = "set" => sessionLog.by = "loginNext"

\* C6: canActivate() returns true only when isAuthenticated() is true, and
\* otherwise returns false and the router ends at /login.
C6_GuardOnlyForAuthenticated ==
  last \in {"canActivate", "navTimer"} =>
    /\ guardResult = TRUE => authCheck.result = TRUE
    /\ guardResult = FALSE => url = "/login"

\* C7: isAuthenticated() is true whenever the store holds a token under the
\* key 'token' and a tokenExpiry that is an ISO timestamp later than now.
C7_TokenKeyAuthenticates ==
  (authCheck.called /\ Truthy(getItem(localStorage, "token"))
     /\ ~isNaN(DateParse(StoredExpiry))
     /\ DateParse(StoredExpiry) > now + authCheck.gap)
    => authCheck.result = TRUE

\* C8: after logout() the store holds nothing under 'token' and nothing
\* under 'tokenExpiry'.
C8_LogoutClearsTokenKey ==
  last = "logout" =>
    /\ getItem(localStorage, "token") = NULL
    /\ getItem(localStorage, "tokenExpiry") = NULL

----------------------------------------------------------------------------
(* Claims about the paged listing state *)

\* C9: in every state of the detail page 1 <= currentPage <= max(totalPages, 1)
\* and currentPage, totalItems and totalPages are not negative.
C9_CurrentPageClamped ==
  /\ 1 <= currentPage
  /\ currentPage <= (IF totalPages > 1 THEN totalPages ELSE 1)
  /\ currentPage >= 0 /\ totalItems >= 0 /\ totalPages >= 0

\* C10: totalPages is the ceiling of totalItems / pageSize, and it is 0
\* exactly when totalItems is 0.
C10_TotalPagesIsCeiling ==
  /\ totalPages * pageSize >= totalItems
  /\ (totalPages - 1) * pageSize < totalItems
  /\ totalPages = 0 <=> totalItems = 0

\* An answer with a total that is no multiple of the page size is shown.
C10_Witness ==
  /\ detailPc = "ready" /\ ~detailLoading /\ Len(alerts) > 0
  /\ totalItems = FullTotal
  /\ totalPages * pageSize > totalItems

----------------------------------------------------------------------------
(* Claims about the pagination controls *)

\* C11: getPageNumbers() returns a run of consecutive ascending page numbers,
\* min(5, totalPages) of them (none when totalPages <= 0), all within
\* 1..totalPages; the run holds currentPage whenever currentPage is within
\* 1..totalPages, and is 1..totalPages when totalPages <= 5.
C11_PageWindow ==
  viewPc = "getPageNumbers" =>
    LET n == Len(pageNumbers)
    IN  /\ n = (IF totalPages <= 0 THEN 0 ELSE MathMin(5, totalPages))
        /\ \A i \in 1 .. n : pageNumbers[i] >= 1 /\ pageNumbers[i] <= totalPages
        /\ \A i \in 1 .. (n - 1) : pageNumbers[i + 1] = pageNumbers[i] + 1
        /\ (currentPage >= 1 /\ currentPage <= totalPages) =>
              \E i \in 1 .. n : pageNumbers[i] = currentPage
        /\ totalPages <= 5 => \A i \in 1 .. n : pageNumbers[i] = i

\* On the last of seven pages the window is moved back to hold five pages.
C11_Witness ==
  /\ viewPc = "getPageNumbers" /\ totalPages = 7 /\ currentPage = 7
  /\ pageNumbers = <<3, 4, 5, 6, 7>>

\* A step taken by a handler of the shown DetailComponent: nothing outside
\* the component changes.
PageFrame ==
  /\ url = "/detail" /\ detailPc = "ready"
  /\ UNCHANGED <<localStorage, url, last, otherVars>>

\* A step of the shown DetailComponent that is a call of goToPage(page).
GoToPageStep(page) == PageFrame /\ goToPage(page)

\* goToPage(page) has no effect on the page.
NoPageEffect ==
  UNCHANGED <<currentPage, alerts, totalItems, totalPages, detailLoading,
              detailError, alertRequests>>

\* Exactly one alert request was issued, for page `page`.
OneRequestIssued(page) ==
  /\ Len(alertRequests') = Len(alertRequests) + 1
  /\ SubSeq(alertRequests', 1, Len(alertRequests)) = alertRequests
  /\ alertRequests'[Len(alertRequests')].indexNumber = ParamTexts[(page - 1) * pageSize]

\* C12 as stated: goToPage(target) with target < 1, target > totalPages or
\* target = currentPage changes nothing and issues no request; for every other
\* target it sets currentPage to target and issues exactly one alert request.
C12_GoToPageAsStated ==
  [][PageFrame =>
       \A page \in PageArguments :
         goToPage(page) =>
           IF page < 1 \/ page > totalPages \/ page = currentPage
           THEN NoPageEffect
           ELSE currentPage' = page /\ OneRequestIssued(page)]_vars

\* C12, amended: for a target in 1..totalPages other than currentPage,
\* goToPage sets currentPage to target and issues exactly one alert request
\* when a token is stored; with no stored token it sets currentPage, issues
\* no request, empties the list and shows "Authentication token not found".
\* Every other target changes nothing.
C12_GoToPageFrame ==
  [][PageFrame =>
       \A page \in PageArguments :
         goToPage(page) =>
           IF page < 1 \/ page > totalPages \/ page = currentPage
           THEN NoPageEffect
           ELSE /\ currentPage' = page
                /\ UNCHANGED <<totalItems, totalPages>>
                /\ alerts' = <<>>
                /\ IF Truthy(getAuthToken(localStorage))
                   THEN OneRequestIssued(page) /\ detailLoading' /\ detailError' = ""
                   ELSE /\ UNCHANGED alertRequests
                        /\ ~detailLoading' /\ detailError' = MsgNoToken]_vars

\* goToPage(3) on page 1 of 5 has issued the request for the third page.
C12_Witness ==
  /\ detailPc = "ready" /\ totalPages = 5 /\ currentPage = 3
  /\ Len(alertRequests) = 1 /\ alertRequests[1].indexNumber = "10"
  /\ detailLoading /\ alerts = <<>>

\* C13: a step of the shown component is a call of goToNextPage, goToPreviousPage, goToFirstPage or
\* goToLastPage exactly when it is a call of goToPage(currentPage + 1),
\* goToPage(currentPage - 1), goToPage(1) or goToPage(totalPages); next on the
\* last page, previous on page 1, and first and last with no pages leave the
\* component as it is.
C13_NavigationIsGoToPage ==
  [][PageFrame =>
       /\ goToNextPage <=> goToPage(currentPage + 1)
       /\ goToPreviousPage <=> goToPage(currentPage - 1)
       /\ goToFirstPage <=> goToPage(1)
       /\ goToLastPage <=> goToPage(totalPages)
       /\ (currentPage >= totalPages /\ goToNextPage) => UNCHANGED detailVars
       /\ (currentPage = 1 /\ goToPreviousPage) => UNCHANGED detailVars
       /\ (totalPages = 0 /\ (goToFirstPage \/ goToLastPage))
            => UNCHANGED detailVars]_vars

\* goToLastPage() on page 1 of 5 has moved to page 5 and asked for its alerts.
C13_Witness ==
  /\ detailPc = "ready" /\ totalPages = 5 /\ currentPage = 5
  /\ Len(alertRequests) = 1 /\ alertRequests[1].indexNumber = "20"
  /\ detailLoading

\* C14: with 23 items in pages of 5 there are 5 pages; goToPage(3) on page 1
\* leads to page 3, where the page window is 1..5 and the last item shown is
\* number 15; goToPage(99) on page 3 leaves the component on page 3.
C14_PagingScenario ==
  [][/\ totalItems = 23 => totalPages = 5
     /\ (totalItems = 23 /\ currentPage = 1 /\ GoToPageStep(3)) =>
          /\ currentPage' = 3
          /\ getPageNumbers(currentPage', totalPages') = <<1, 2, 3, 4, 5>>
          /\ getEndItemNumber' = 15
     /\ (totalItems = 23 /\ currentPage = 3 /\ GoToPageStep(99)) =>
          currentPage' = 3]_vars

\* The component is on page 3 of the 23 items, the third page being loaded.
C14_Witness ==
  /\ detailPc = "ready" /\ totalItems = 23 /\ totalPages = 5 /\ currentPage = 3
  /\ getPageNumbers(currentPage, totalPages) = <<1, 2, 3, 4, 5>>
  /\ getEndItemNumber = 15
  /\ alertRequests # <<>> /\ alertRequests[Len(alertRequests)].indexNumber = "10"

----------------------------------------------------------------------------
(* Claims about the display helpers *)

\* The i-th candidate key of the logical field ft holds a usable value.
Qualifies(ft, i) ==
  LET key == fieldMappings[ft][i]
  IN  /\ key \in DOMAIN alert
      /\ alert[key] # JsNull /\ alert[key] # JsString("")

\* The value the claim assigns to the logical field ft of the record.
ClaimedField(ft) ==
  IF ft \in {"datetime", "remark", "status", "duration"}
        /\ \E i \in 1 .. Len(fieldMappings[ft]) : Qualifies(ft, i)
  THEN LET first == CHOOSE i \in 1 .. Len(fieldMappings[ft]) :
                      Qualifies(ft, i) /\ \A j \in 1 .. (i - 1) : ~Qualifies(ft, j)
       IN  alert[fieldMappings[ft][first]]
  ELSE JsNull

\* C15: getAlertField returns the value of the earliest candidate key of the
\* logical field whose value is present, not null and not the empty string,
\* and null when no candidate qualifies or the logical field is not one of
\* datetime, remark, status, duration.
C15_FirstUsableCandidate ==
  viewPc = "getAlertField" => fieldValue = ClaimedField(fieldType)

\* The claim restricted to field names that Object.prototype does not define.
C15_OwnOrAbsentFieldNames ==
  (viewPc = "getAlertField" /\ fieldType \notin ObjectPrototypeKeys) =>
     fieldValue = ClaimedField(fieldType)

\* The text "<h> hrs <m> mins".
HrsMins(h, m) == ToString(h) \o " hrs " \o ToString(m) \o " mins"

\* C16: formatDuration returns "N/A" for null and every other falsy input,
\* a non-empty string unchanged, and for a whole number n of minutes the text
\* "<h> hrs <m> mins" with h * 60 + m = n and 0 <= m < 60.
C16_HoursAndMinutes ==
  viewPc = "formatDuration" =>
    /\ JsFalsy(duration) => durationText = "N/A"
    /\ (duration.t = "string" /\ duration.s # "") => durationText = duration.s
    /\ (duration.t = "number" /\ duration.s = "" /\ duration.n # 0) =>
          \E h \in (-MaxMinutes) .. MaxMinutes, m \in 0 .. 59 :
             /\ h * 60 + m = duration.n
             /\ durationText = HrsMins(h, m)

\* The claim for the durations that are not negative.
C16_NonNegativeMinutes ==
  (viewPc = "formatDuration" /\ ~(duration.t = "number" /\ duration.n < 0)) =>
    /\ JsFalsy(duration) => durationText = "N/A"
    /\ (duration.t = "string" /\ duration.s # "") => durationText = duration.s
    /\ (duration.t = "number" /\ duration.s = "" /\ duration.n # 0) =>
          /\ durationText = HrsMins(duration.n \div 60, duration.n % 60)
          /\ duration.n = 125 => durationText = "2 hrs 5 mins"

\* C17 as stated: for every input from which no valid date can be built,
\* formatDateTime returns the input as a string, unchanged.
C17_InvalidDateEchoedAsStated ==
  (viewPc = "formatDateTime" /\ ~DateOf(datetime).valid) =>
     dateTimeText = JsToString(datetime)

\* C17, amended: formatDateTime returns "N/A" for every falsy input (null,
\* undefined, false, 0, NaN, the empty string), and for every other input
\* from which no valid date can be built it returns the input as a string,
\* unchanged.
C17_InvalidDateEchoed ==
  viewPc = "formatDateTime" =>
    /\ JsFalsy(datetime) => dateTimeText = "N/A"
    /\ (~JsFalsy(datetime) /\ ~DateOf(datetime).valid) =>
          dateTimeText = JsToString(datetime)

\* "not-a-date" comes back as it went in.
C17_Witness ==
  /\ viewPc = "formatDateTime" /\ datetime = JsString("not-a-date")
  /\ dateTimeText = "not-a-date"

\* Dates that can be built are rendered as MM/DD/YYYY, HH:MM:SS.
DateTimeSamples ==
  viewPc = "formatDateTime" =>
    /\ datetime = JsString("2022-01-30T10:30:00Z") => dateTimeText = "01/30/2022, 10:30:00"
    /\ datetime = JsValue("number", "", 1643538600, TRUE)
          => dateTimeText = "01/30/2022, 10:30:00"
    /\ datetime = JsNumber(-5) => dateTimeText = "12/31/1969, 23:59:55"
    /\ datetime = JsNumber(60) => dateTimeText = "01/01/1970, 00:01:00"
    /\ datetime = JsString("2022-13-45") => dateTimeText = "2022-13-45"
    /\ datetime = JsInfinity => dateTimeText = "Infinity"

----------------------------------------------------------------------------
(* Claims about the theme *)

\* C18: a ThemeService created while the store holds nothing, or a text
\* other than 'light' or 'dark', under 'app-theme' starts in the light theme;
\* a toggle turns light into dark and dark into light, two toggles in a row
\* give back the theme before them, and getCurrentTheme() is always 'light'
\* or 'dark'.
C18_ToggleIsInvolution ==
  /\ \A i \in Services :
       themeSubject[i] # NoService => getCurrentTheme(i) \in {"light", "dark"}
  /\ (themeCall.op = "new" /\ getItem(localStorage, THEME_KEY) \notin {"light", "dark"})
        => getCurrentTheme(themeCall.service) = "light"
  /\ (themeCall.op = "toggle" /\ themeCall.toggles = 1) =>
        /\ themeCall.origin = "light" => getCurrentTheme(themeCall.service) = "dark"
        /\ themeCall.origin = "dark" => getCurrentTheme(themeCall.service) = "light"
  /\ (themeCall.op = "toggle" /\ themeCall.toggles = 2) =>
        getCurrentTheme(themeCall.service) = themeCall.origin

\* A service in the light theme was toggled twice, its writes reaching the
\* store, and shows the light theme again.
C18_Witness ==
  /\ themeCall.op = "toggle" /\ themeCall.toggles = 2 /\ themeCall.origin = "light"
  /\ getCurrentTheme(themeCall.service) = "light"
  /\ themeCall.writer = themeCall.service

\* A step that constructs ThemeService j.
NewServiceStep(j) == themeSubject[j] = NoService /\ themeSubject'[j] # NoService

\* The step is a toggleTheme() or setTheme() call.
ThemeSetStep == themeCall'.op \in {"toggle", "set"}

\* C19 as stated: after every toggleTheme() or setTheme(t) the store holds
\* getCurrentTheme() under 'app-theme', and a ThemeService constructed next
\* starts with that theme.
C19_ThemePersistsAsStated ==
  [][/\ ThemeSetStep =>
          getItem(localStorage', THEME_KEY) = themeSubject'[themeCall'.service]
     /\ \A j \in Services :
          (themeCall.op \in {"toggle", "set"} /\ NewServiceStep(j)) =>
             themeSubject'[j] = themeSubject[themeCall.service]]_vars

\* C19, amended: after a toggleTheme() or setTheme(t) whose write to
\* localStorage does not throw, the store holds getCurrentTheme() under
\* 'app-theme', and a ThemeService constructed next that can read the store
\* starts with that theme; when the write throws, the theme changes in the
\* service and the store stays as it was.
C19_ThemePersists ==
  [][/\ (ThemeSetStep /\ themeCall'.stored) =>
          getItem(localStorage', THEME_KEY) = themeSubject'[themeCall'.service]
     /\ (ThemeSetStep /\ ~themeCall'.stored) => UNCHANGED localStorage
     /\ \A j \in Services :
          (themeCall.op \in {"toggle", "set"} /\ themeCall.stored
             /\ NewServiceStep(j) /\ themeCall'.stored) =>
               themeSubject'[j] = themeSubject[themeCall.service]]_vars

\* Service 1 stored the dark theme and service 2, constructed after it,
\* starts dark.
C19_Witness ==
  /\ themeCall.op = "new" /\ themeCall.service = 2 /\ themeCall.stored
  /\ themeCall.writer = 1
  /\ getItem(localStorage, THEME_KEY) = "dark"
  /\ getCurrentTheme(1) = "dark" /\ getCurrentTheme(2) = "dark"

----------------------------------------------------------------------------
(* Claims about a failed login *)

\* C20: when the authentication request of the shown LoginComponent fails
\* with an error, the component ends with loginMessage 'Invalid username or
\* password.' and isLoading false.
C20_FailedLoginShowsError ==
  [][(last' = "loginError" /\ loginPending' = loginPending - 1) =>
        (loginMessage' = MsgInvalid /\ ~loginLoading')]_vars

\* The part of C20 the error handler does establish: isLoading is false.
C20_FailedLoginStopsLoading ==
  [][(last' = "loginError" /\ loginPending' = loginPending - 1) => ~loginLoading']_vars

----------------------------------------------------------------------------
(* Claims about a successful login *)

\* C21: when the authentication API answers a login() sent with the accepted
\* credentials with success true and a token, the response's token and expiry
\* are stored as the session and isLoading of the component becomes false;
\* the navigation to /home it schedules is eventually carried out.
C21_SuccessfulLogin ==
  /\ [][\A response \in LoginResponses, g \in ReadGaps, shown \in BOOLEAN :
          (/\ response.success = TRUE /\ Truthy(response.token)
           /\ loginNext(response, g, shown))
            => /\ getAuthToken(localStorage') = response.token
               /\ getItem(localStorage', "tokenExpiry") = response.tokenExpiry
               /\ shown => ~loginLoading'
               /\ navTimers' = navTimers + 1]_vars
  /\ (last = "loginNext" /\ authCheck.called) ~> (last = "navTimer")

\* The session of a successful login is in the store and the scheduled
\* navigation has brought the user to the home page.
C21_Witness ==
  /\ last = "navTimer" /\ url = "/home"
  /\ sessionLog.op = "set" /\ sessionLog.by = "loginNext"
  /\ getAuthToken(localStorage) = RealToken
  /\ ~loginLoading

----------------------------------------------------------------------------
(* Claims about the login form *)

\* C22: validateForm() sets isFormValid to true exactly when the username has
\* at least 3 characters and the password at least 6, to false otherwise, and
\* changes no other field of the component.
C22_FormValidity ==
  [][last' = "validateForm" =>
       /\ isFormValid' = (Len(username) >= 3 /\ Len(password) >= 6)
       /\ (Len(username) < 3 \/ Len(password) < 6) => ~isFormValid'
       /\ UNCHANGED <<username, password, loginMessage, loginLoading>>]_vars

\* The form is found valid with fields of exactly the least lengths.
C22_Witness ==
  /\ last = "validateForm" /\ isFormValid
  /\ Len(username) = 3 /\ Len(password) = 6

----------------------------------------------------------------------------
(* Claims about the alert requests *)

\* A step issued an alert request; the request it issued.
RequestIssued == Len(alertRequests') = Len(alertRequests) + 1
IssuedRequest == alertRequests'[Len(alertRequests')]

\* A step of the shown DetailComponent in which loadAlerts() is called.
LoadAlertsCall ==
  \/ NgOnInit /\ Truthy(productId)
  \/ OnDateRangeChange
  \/ \E page \in 1 .. totalPages : page # currentPage /\ GoToPageStep(page)

\* C23: an alert request is issued only when a token is stored, and it
\* carries the token stored at that moment as 'Authorization: Bearer <token>';
\* a loadAlerts() call with no stored token issues no request, sets
\* errorMessage to 'Authentication token not found', and leaves isLoading
\* false and alerts empty.
C23_RequestsCarryToken ==
  [][/\ RequestIssued =>
          /\ Truthy(getAuthToken(localStorage))
          /\ IssuedRequest.Authorization = "Bearer " \o getAuthToken(localStorage)
     /\ (~Truthy(getAuthToken(localStorage)) /\ LoadAlertsCall) =>
          /\ UNCHANGED alertRequests
          /\ detailError' = MsgNoToken
          /\ ~detailLoading'
          /\ alerts' = <<>>]_vars

\* Two requests in flight carry the two tokens stored when each was issued,
\* and a later call found no token.
C23_Witness ==
  /\ Len(alertRequests) = 2
  /\ alertRequests[1].Authorization = "Bearer " \o RealToken
  /\ alertRequests[2].Authorization = "Bearer " \o RenewedToken
  /\ getAuthToken(localStorage) = NULL
  /\ detailError = MsgNoToken /\ ~detailLoading /\ alerts = <<>>

\* C24: every alert request carries indexNumber = (currentPage - 1) * pageSize
\* and the pageSize, startDate and endDate the component holds when it is
\* issued; onDateRangeChange() sets currentPage to 1 before it reloads, so the
\* request it issues has indexNumber 0.
C24_RequestParameters ==
  [][/\ RequestIssued =>
          /\ ParamNumber(IssuedRequest.indexNumber) = (currentPage' - 1) * pageSize
          /\ ParamNumber(IssuedRequest.pageSize) = pageSize
          /\ IssuedRequest.startDate = startDate'
          /\ IssuedRequest.endDate = endDate'
     /\ OnDateRangeChange =>
          /\ currentPage' = 1
          /\ RequestIssued => IssuedRequest.indexNumber = "0"]_vars

\* The request for page 3 is still in flight when a new date range is picked:
\* the request for the new range asks for the first page.
C24_Witness ==
  /\ Len(alertRequests) = 2
  /\ alertRequests[1].indexNumber = "10" /\ alertRequests[1].startDate = DefaultStart
  /\ alertRequests[2].indexNumber = "0" /\ alertRequests[2].startDate = "2022-02-14"
  /\ currentPage = 1 /\ startDate = "2022-02-14"

----------------------------------------------------------------------------
(* Claims about overlapping alert requests *)

\* The request loadAlerts() would issue now: the most recently issued one.
LatestRequest ==
  [productId     |-> productId,
   Authorization |-> Bearer(RealToken),
   indexNumber   |-> ParamTexts[(currentPage - 1) * pageSize],
   pageSize      |-> ParamTexts[pageSize],
   startDate     |-> startDate,
   endDate       |-> endDate]

\* C27: when no alert request is in flight and no request has failed since the
\* last load, the alerts, totalItems and totalPages shown are those of the
\* answer to the most recently issued request, the one for the current page
\* and date range, in whatever order the answers arrived.
C27_LatestResponseShown ==
  (detailPc = "ready" /\ Truthy(productId) /\ alertRequests = <<>> /\ detailError = "") =>
    LET response == ServerResponse(LatestRequest, apiShape)
    IN  /\ alerts = ResponseAlerts(response)
        /\ totalItems = ResponseItems(response)
        /\ totalPages = MathCeilDiv(ResponseItems(response), pageSize)

\* C28: isLoading is true whenever an alert request is in flight, and false
\* once every issued request has completed.
C28_LoadingWhileInFlight ==
  detailPc = "ready" =>
    /\ alertRequests # <<>> => detailLoading
    /\ alertRequests = <<>> => ~detailLoading

\* The half of C28 that holds: with no request in flight isLoading is false.
C28_IdleNotLoading ==
  alertRequests = <<>> => ~detailLoading

----------------------------------------------------------------------------
(* Claims about the product list of the home page *)

\* The products of `list` that have the id.
Matches(list, id) == {i \in 1 .. Len(list) : list[i].id = id}

\* The list after the step is the list before it without one product that
\* has the id; with no such product it is the list before it.
RemovesOnly(id) ==
  IF Matches(products, id) = {}
  THEN products' = products
  ELSE \E i \in Matches(products, id) : products' = RemoveAt(products, i)

\* C25: updateProduct() replaces one product whose id is editingProduct.id by a
\* product of the same id and leaves every other position as it was;
\* removeProduct() and confirmDeleteProduct() take one product with the
\* matching id out and keep the others in their order; with no product of the
\* matching id the list stays as it was.
C25_OnlyMatchingProduct ==
  [][/\ last' = "updateProduct" =>
          IF Matches(products, editingProduct.id) = {}
          THEN products' = products
          ELSE \E i \in Matches(products, editingProduct.id) :
                 /\ Len(products') = Len(products)
                 /\ products'[i].id = editingProduct.id
                 /\ products'[i].productName = trim(editingProduct.productName)
                 /\ \A j \in 1 .. Len(products) : j # i => products'[j] = products[j]
     /\ last' = "removeProduct" => RemovesOnly(editingProduct.id)
     /\ last' = "confirmDeleteProduct" => RemovesOnly(productToDelete.id)]_vars

C25_Witness ==
  /\ last = "confirmDeleteProduct"
  /\ Len(products) = 2
  /\ products[1] = Product("product_0", "Switch", "https://shop.example/switch")
  /\ products[2] = Product("product_2", "Hub", "https://shop.example/modem")

\* A call that found no product with the id and left the list alone.
C25_WitnessNoMatch ==
  /\ last = "updateProduct"
  /\ showEditModal
  /\ editingProduct.id = "product_1"
  /\ Len(products) = 1
  /\ products[1].id = "product_0"

----------------------------------------------------------------------------
(* Claims about a failed product-list request *)

\* C26: when the product-list request fails with 401 and the stored token has
\* neither test prefix, the session record is removed and the app is at
\* /login; when the token has one of the prefixes, the session record and the
\* URL stay and the component shows the test-mode message; either way
\* isLoading is false afterwards.
C26_Unauthorized ==
  [][\A shown \in BOOLEAN :
       productsError(401, shown) =>
         LET token == getAuthToken(localStorage)
         IN  /\ IF Truthy(token) /\ (\/ startsWith(token, "test-token-")
                                     \/ startsWith(token, "mock-jwt-token-"))
                THEN /\ UNCHANGED <<localStorage, url>>
                     /\ shown => homeError' = MsgTestMode
                ELSE /\ getItem(localStorage', "authToken") = NULL
                     /\ getItem(localStorage', "tokenExpiry") = NULL
                     /\ url' = "/login"
             /\ shown => ~homeLoading']_vars

C26_Witness ==
  /\ last = "productsError"
  /\ url = "/home"
  /\ getAuthToken(localStorage) = "mock-jwt-token-0"
  /\ homeError = MsgTestMode
  /\ ~homeLoading

\* The other case: a real token, the session removed by logout().
C26_WitnessLogout ==
  /\ last = "productsError"
  /\ url = "/login"
  /\ sessionLog.op = "logout" /\ sessionLog.by = "logout"
  /\ getAuthToken(localStorage) = NULL
  /\ homePc = "none"

\* C29: once no product-list request of the home page is in flight, every
\* call of loadProducts() has ended: isLoading is false, and the page shows
\* the list of a response or an error message.
C29_LoadProductsEnds ==
  (HomeShown /\ productRequests = 0) =>
    /\ ~homeLoading
    /\ homePc = "loaded" \/ homeError # ""

\* The part of C29 that holds: a call made with a token stored ends so.
C29_EndsWithToken ==
  (HomeShown /\ productRequests = 0 /\ homePc # "threw") =>
    /\ ~homeLoading
    /\ homePc = "loaded" \/ homeError # ""

====
